---------------------------- MODULE Spec2Model ----------------------------
(***************************************************************************)
(* Model of kaku's pane transcoder (mux/src/pane_encoding.rs) and of the   *)
(* PaneEncoding enumeration (config/src/keyassignment.rs).                 *)
(*                                                                         *)
(* Bytes are the integers 0..255.  Byte strings are sequences of bytes.    *)
(* Positions in a byte string are 1-based here and 0-based in the Rust     *)
(* source; a Rust slice data[a..b] is SubSeq(data, a+1, b).                *)
(*                                                                         *)
(* The character-set tables of encoding_rs are an external library.  The   *)
(* codec operators below follow the decoders and encoders of the WHATWG    *)
(* Encoding Standard, which encoding_rs implements, structurally (lead and *)
(* trail byte ranges, what an error consumes), and carry the index entries *)
(* of every byte pair and character that the alphabets below can form.     *)
(***************************************************************************)
EXTENDS Integers, Sequences, FiniteSets, TLC

VARIABLES
    profile,          \* which family of inputs this behaviour draws from
    d_encoding,       \* PaneOutputDecoder.encoding
    d_state,          \* PaneOutputDecoder.state
    d_escape_bytes,   \* PaneOutputDecoder.escape_bytes
    d_pending,        \* PaneOutputDecoder.pending_encoded
    d_pre,            \* the decoder's fields before the last decode call
    d_data,           \* the data argument of the last decode call
    d_ret,            \* the value the last decode call returned
    d_in,             \* all bytes fed since the decoder was last reset
    d_out,            \* all bytes returned since the decoder was last reset
    d_calls,          \* decode calls made on the decoder
    e_encoding,       \* PaneInputEncoder.encoding
    e_state,          \* PaneInputEncoder.state
    e_escape_bytes,   \* PaneInputEncoder.escape_bytes
    e_pending,        \* PaneInputEncoder.pending_utf8
    e_pre,            \* the encoder's fields before the last encode call
    e_data,           \* the data argument of the last encode call
    e_ret,            \* the value the last encode call returned
    e_in,             \* all bytes fed since the encoder was last reset
    e_out,            \* all bytes returned since the encoder was last reset
    e_calls,          \* encode calls made on the encoder
    LAST_SELECTED_ENCODING,   \* the process-wide AtomicU8
    r_recorded,       \* the encodings given to set_last_selected so far
    r_called,         \* whether ordered_list was called
    r_seen,           \* r_recorded when ordered_list was last called
    r_ret,            \* the value the last ordered_list call returned
    r_pc,             \* where the thread that calls ordered_list stands
    r_last,           \* `last` of ordered_list: the byte it loaded
    r_returned,       \* r_recorded when ordered_list last returned
    s_encoding,       \* the encoding argument of the last decode_bytes_to_string
    s_raw,            \* the raw argument of the last decode_bytes_to_string
    s_text,           \* the String the last decode_bytes_to_string returned
    s_called          \* whether decode_bytes_to_string was called

dvars == <<d_encoding, d_state, d_escape_bytes, d_pending, d_pre, d_data,
           d_ret, d_in, d_out, d_calls>>
evars == <<e_encoding, e_state, e_escape_bytes, e_pending, e_pre, e_data,
           e_ret, e_in, e_out, e_calls>>
rvars == <<LAST_SELECTED_ENCODING, r_recorded, r_called, r_seen, r_ret,
           r_pc, r_last, r_returned>>
svars == <<s_encoding, s_raw, s_text, s_called>>
vars == <<profile, dvars, evars, rvars, svars>>

---------------------------------------------------------------------------
(* Bounds of the model.                                                    *)

\* total bytes fed to one instance between resets, mixed alphabets
MaxInput == 5
\* total bytes fed to a decoder between resets, malformed-text alphabets
MaxLong == 6
\* total bytes fed to an encoder between resets
MaxEncInput == 4
\* bytes in one call to an instance whose encoding is switched between calls
MaxSwitchInput == 1
\* calls to an instance whose encoding is switched between calls
MaxSwitchCalls == 2
\* characters in a round-trip text
MaxChars == 2
\* calls of a behaviour that feeds whole control sequences
MaxCalls == 2
\* bytes in one call of a behaviour that feeds arbitrary bytes
MaxTotalInput == 2
\* bytes of a printable ASCII input
MaxAsciiInput == 3
\* set_last_selected calls in one behaviour
MaxSelections == 3
\* one-byte calls in a behaviour that walks the escape classifier
MaxRaw == 3
MaxClassifierCalls == 4

---------------------------------------------------------------------------
(* Program constants.                                                      *)

MAX_TRAILING_ENCODED_BYTES == 4
ESC == 27
CSI_8BIT == 155
BEL == 7
QUESTION_MARK == 63

LegacyEncodings == {"Gbk", "Gb18030", "Big5", "EucKr", "ShiftJis"}
PaneEncoding == {"Utf8"} \cup LegacyEncodings

EscapeState == {"Ground", "Esc", "Csi", "Osc", "OscEsc", "Dcs", "DcsEsc"}

InRange(b, lo, hi) == lo <= b /\ b <= hi

---------------------------------------------------------------------------
(* The encoding enumeration and the last-selected registry.                *)

\* `encoding as u8`: the discriminants of the enumeration
as_u8(encoding) ==
    CASE encoding = "Utf8" -> 0
      [] encoding = "Gbk" -> 1
      [] encoding = "Gb18030" -> 2
      [] encoding = "Big5" -> 3
      [] encoding = "ShiftJis" -> 4
      [] encoding = "EucKr" -> 5

DEFAULT_ORDER == <<"Utf8", "Gbk", "Gb18030", "Big5", "EucKr", "ShiftJis">>

\* from_u8 with 4 and 5 read in the order of DEFAULT_ORDER
from_u8_in_menu_order(val) ==
    CASE val = 1 -> "Gbk"
      [] val = 2 -> "Gb18030"
      [] val = 3 -> "Big5"
      [] val = 4 -> "EucKr"
      [] val = 5 -> "ShiftJis"
      [] OTHER -> "Utf8"

\* from_u8 without the arm for 5
from_u8_euckr_arm_missing(val) ==
    CASE val = 1 -> "Gbk"
      [] val = 2 -> "Gb18030"
      [] val = 3 -> "Big5"
      [] val = 4 -> "ShiftJis"
      [] OTHER -> "Utf8"

\* PaneEncoding::from_u8(val)
from_u8(val) ==
    CASE val = 1 -> "Gbk"
      [] val = 2 -> "Gb18030"
      [] val = 3 -> "Big5"
      [] val = 4 -> "ShiftJis"
      [] val = 5 -> "EucKr"
      [] OTHER -> "Utf8"

\* the byte set_last_selected stores
set_last_selected(encoding) == as_u8(encoding)

\* ordered_list whose loop does not skip the promoted encoding
ordered_list_duplicate_kept(last) ==
    LET last_encoding == from_u8(last)
    IN  IF last_encoding # "Utf8"
        THEN <<"Utf8", last_encoding>>
                \o SelectSeq(DEFAULT_ORDER, LAMBDA enc : enc # "Utf8")
        ELSE <<"Utf8">> \o SubSeq(DEFAULT_ORDER, 2, Len(DEFAULT_ORDER))

\* ordered_list that promotes the last selection even when it is Utf8
ordered_list_identity_promoted(last) ==
    LET last_encoding == from_u8(last)
    IN  <<"Utf8", last_encoding>>
            \o SelectSeq(DEFAULT_ORDER,
                         LAMBDA enc : enc # "Utf8" /\ enc # last_encoding)

\* ordered_list, given the byte it loads from LAST_SELECTED_ENCODING
ordered_list(last) ==
    LET last_encoding == from_u8(last)
    IN  IF last_encoding # "Utf8"
        THEN <<"Utf8", last_encoding>>
                \o SelectSeq(DEFAULT_ORDER,
                             LAMBDA enc : enc # "Utf8" /\ enc # last_encoding)
        ELSE <<"Utf8">> \o SubSeq(DEFAULT_ORDER, 2, Len(DEFAULT_ORDER))

---------------------------------------------------------------------------
(* The escape-sequence classifier.                                         *)

\* advance_escape with BEL no longer ending an OSC string
advance_escape_bel_ignored(state, byte) ==
    CASE state = "Ground" -> "Ground"
      [] state = "Esc" ->
            IF byte = 91 THEN "Csi"
            ELSE IF byte = 93 THEN "Osc"
            ELSE IF byte = 80 THEN "Dcs"
            ELSE IF InRange(byte, 64, 126) THEN "Ground"
            ELSE "Esc"
      [] state = "Csi" ->
            IF InRange(byte, 64, 126) THEN "Ground" ELSE "Csi"
      [] state = "Osc" ->
            IF byte = 27 THEN "OscEsc" ELSE "Osc"
      [] state = "OscEsc" ->
            IF byte = 92 THEN "Ground" ELSE "Osc"
      [] state = "Dcs" ->
            IF byte = 27 THEN "DcsEsc" ELSE "Dcs"
      [] state = "DcsEsc" ->
            IF byte = 92 THEN "Ground" ELSE "Dcs"

\* advance_escape with every escape but ESC [, ESC ] and ESC P ending at its
\* second byte
advance_escape_esc_two_bytes(state, byte) ==
    CASE state = "Ground" -> "Ground"
      [] state = "Esc" ->
            IF byte = 91 THEN "Csi"
            ELSE IF byte = 93 THEN "Osc"
            ELSE IF byte = 80 THEN "Dcs"
            ELSE "Ground"
      [] state = "Csi" ->
            IF InRange(byte, 64, 126) THEN "Ground" ELSE "Csi"
      [] state = "Osc" ->
            IF byte = BEL THEN "Ground"
            ELSE IF byte = ESC THEN "OscEsc"
            ELSE "Osc"
      [] state = "OscEsc" ->
            IF byte = 92 THEN "Ground" ELSE "Osc"
      [] state = "Dcs" ->
            IF byte = ESC THEN "DcsEsc" ELSE "Dcs"
      [] state = "DcsEsc" ->
            IF byte = 92 THEN "Ground" ELSE "Dcs"

\* advance_escape with DEL taken as a final byte of a CSI sequence
advance_escape_csi_final_to_7f(state, byte) ==
    CASE state = "Ground" -> "Ground"
      [] state = "Esc" ->
            IF byte = 91 THEN "Csi"
            ELSE IF byte = 93 THEN "Osc"
            ELSE IF byte = 80 THEN "Dcs"
            ELSE IF InRange(byte, 64, 126) THEN "Ground"
            ELSE "Esc"
      [] state = "Csi" ->
            IF InRange(byte, 64, 127) THEN "Ground" ELSE "Csi"
      [] state = "Osc" ->
            IF byte = BEL THEN "Ground"
            ELSE IF byte = ESC THEN "OscEsc"
            ELSE "Osc"
      [] state = "OscEsc" ->
            IF byte = 92 THEN "Ground" ELSE "Osc"
      [] state = "Dcs" ->
            IF byte = ESC THEN "DcsEsc" ELSE "Dcs"
      [] state = "DcsEsc" ->
            IF byte = 92 THEN "Ground" ELSE "Dcs"

\* advance_escape with a second ESC still awaiting the backslash of an OSC
advance_escape_osc_esc_held(state, byte) ==
    CASE state = "Ground" -> "Ground"
      [] state = "Esc" ->
            IF byte = 91 THEN "Csi"
            ELSE IF byte = 93 THEN "Osc"
            ELSE IF byte = 80 THEN "Dcs"
            ELSE IF InRange(byte, 64, 126) THEN "Ground"
            ELSE "Esc"
      [] state = "Csi" ->
            IF InRange(byte, 64, 126) THEN "Ground" ELSE "Csi"
      [] state = "Osc" ->
            IF byte = BEL THEN "Ground"
            ELSE IF byte = ESC THEN "OscEsc"
            ELSE "Osc"
      [] state = "OscEsc" ->
            IF byte = 92 THEN "Ground"
            ELSE IF byte = ESC THEN "OscEsc"
            ELSE "Osc"
      [] state = "Dcs" ->
            IF byte = ESC THEN "DcsEsc" ELSE "Dcs"
      [] state = "DcsEsc" ->
            IF byte = 92 THEN "Ground" ELSE "Dcs"

\* advance_escape with BEL ending a DCS string as it ends an OSC string
advance_escape_dcs_bel_ends(state, byte) ==
    CASE state = "Ground" -> "Ground"
      [] state = "Esc" ->
            IF byte = 91 THEN "Csi"
            ELSE IF byte = 93 THEN "Osc"
            ELSE IF byte = 80 THEN "Dcs"
            ELSE IF InRange(byte, 64, 126) THEN "Ground"
            ELSE "Esc"
      [] state = "Csi" ->
            IF InRange(byte, 64, 126) THEN "Ground" ELSE "Csi"
      [] state = "Osc" ->
            IF byte = BEL THEN "Ground"
            ELSE IF byte = ESC THEN "OscEsc"
            ELSE "Osc"
      [] state = "OscEsc" ->
            IF byte = 92 THEN "Ground" ELSE "Osc"
      [] state = "Dcs" ->
            IF byte = BEL THEN "Ground"
            ELSE IF byte = ESC THEN "DcsEsc"
            ELSE "Dcs"
      [] state = "DcsEsc" ->
            IF byte = 92 THEN "Ground" ELSE "Dcs"

advance_escape(state, byte) ==
    CASE state = "Ground" -> "Ground"
      [] state = "Esc" ->
            IF byte = 91 THEN "Csi"
            ELSE IF byte = 93 THEN "Osc"
            ELSE IF byte = 80 THEN "Dcs"
            ELSE IF InRange(byte, 64, 126) THEN "Ground"
            ELSE "Esc"
      [] state = "Csi" ->
            IF InRange(byte, 64, 126) THEN "Ground" ELSE "Csi"
      [] state = "Osc" ->
            IF byte = BEL THEN "Ground"
            ELSE IF byte = ESC THEN "OscEsc"
            ELSE "Osc"
      [] state = "OscEsc" ->
            IF byte = 92 THEN "Ground" ELSE "Osc"
      [] state = "Dcs" ->
            IF byte = ESC THEN "DcsEsc" ELSE "Dcs"
      [] state = "DcsEsc" ->
            IF byte = 92 THEN "Ground" ELSE "Dcs"

\* begin_escape that opens an escape for 9B as it does for ESC
begin_escape_always_esc(byte) ==
    [state |-> "Esc", escape_bytes |-> <<byte>>]

\* begin_escape(&mut state, &mut escape_bytes, byte): the new (state, bytes)
begin_escape(byte) ==
    [state |-> IF byte = CSI_8BIT THEN "Csi" ELSE "Esc",
     escape_bytes |-> <<byte>>]

IsIntroducer(byte) == byte = ESC \/ byte = CSI_8BIT

---------------------------------------------------------------------------
(* The codec table (get_encoding): the encoding_rs codec of each legacy    *)
(* encoding.  Characters are carried as their UTF-8 byte strings.          *)

\* the UTF-8 encoding of a Unicode scalar value
Utf8Of(cp) ==
    IF cp < 128 THEN <<cp>>
    ELSE IF cp < 2048 THEN <<192 + (cp \div 64), 128 + (cp % 64)>>
    ELSE IF cp < 65536 THEN
        <<224 + (cp \div 4096), 128 + ((cp \div 64) % 64), 128 + (cp % 64)>>
    ELSE <<240 + (cp \div 262144), 128 + ((cp \div 4096) % 64),
           128 + ((cp \div 64) % 64), 128 + (cp % 64)>>

\* the scalar value of one well-formed UTF-8 sequence
CodePoint(ch) ==
    CASE Len(ch) = 1 -> ch[1]
      [] Len(ch) = 2 -> (ch[1] - 192) * 64 + (ch[2] - 128)
      [] Len(ch) = 3 ->
            (ch[1] - 224) * 4096 + (ch[2] - 128) * 64 + (ch[3] - 128)
      [] OTHER ->
            (ch[1] - 240) * 262144 + (ch[2] - 128) * 4096
                + (ch[3] - 128) * 64 + (ch[4] - 128)

REPLACEMENT_CHARACTER == Utf8Of(65533)

\* index gb18030 (two-byte part), shared by the GBK and gb18030 codecs
IndexGb ==
    (<<196, 65>>  :> <<232, 133, 129>>) @@    \* C4 41  U+8141
    (<<196, 196>> :> <<229, 147, 170>>) @@    \* C4 C4  U+54EA
    (<<196, 227>> :> <<228, 189, 160>>) @@    \* C4 E3  U+4F60
    (<<196, 155>> :> <<232, 135, 142>>) @@    \* C4 9B  U+81CE
    (<<227, 65>>  :> <<233, 137, 135>>) @@    \* E3 41  U+9247
    (<<227, 196>> :> <<233, 154, 179>>) @@    \* E3 C4  U+96B3
    (<<227, 227>> :> <<230, 178, 163>>) @@    \* E3 E3  U+6CA3
    (<<227, 155>> :> <<233, 138, 162>>) @@    \* E3 9B  U+92A2
    (<<129, 65>>  :> <<228, 184, 132>>) @@    \* 81 41  U+4E04
    (<<129, 129>> :> <<228, 186, 150>>) @@    \* 81 81  U+4E96
    (<<129, 232>> :> <<228, 189, 189>>) @@    \* 81 E8  U+4F7D
    (<<183, 240>> :> <<228, 189, 155>>)       \* B7 F0  U+4F5B

\* index gb18030 ranges (the four-byte part)
IndexGbRanges ==
    (<<129, 49, 129, 49>>  :> <<216, 139>>) @@        \* U+060B
    (<<130, 51, 250, 51>>  :> <<228, 160, 189>>) @@   \* U+483D
    (<<130, 51, 247, 52>>  :> <<228, 160, 160>>)      \* U+4820

IndexBig5 ==
    (<<167, 65>>  :> <<228, 189, 160>>) @@    \* A7 41  U+4F60
    (<<167, 167>> :> <<229, 163, 175>>) @@    \* A7 A7  U+58EF
    (<<167, 166>> :> <<229, 156, 187>>) @@    \* A7 A6  U+573B
    (<<166, 65>>  :> <<229, 134, 141>>) @@    \* A6 41  U+518D
    (<<166, 167>> :> <<230, 136, 141>>) @@    \* A6 A7  U+620D
    (<<166, 166>> :> <<230, 136, 140>>) @@    \* A6 A6  U+620C
    (<<203, 181>> :> <<228, 189, 189>>) @@    \* CB B5  U+4F7D
    (<<166, 242>> :> <<228, 189, 155>>)       \* A6 F2  U+4F5B

IndexEucKr ==
    (<<190, 65>>  :> <<237, 144, 184>>) @@    \* BE 41  U+D438
    (<<190, 190>> :> <<236, 148, 168>>) @@    \* BE BE  U+C528
    (<<190, 200>> :> <<236, 149, 136>>) @@    \* BE C8  U+C548
    (<<190, 155>> :> <<237, 146, 152>>) @@    \* BE 9B  U+D498
    (<<200, 190>> :> <<237, 154, 161>>) @@    \* C8 BE  U+D6A1
    (<<200, 200>> :> <<237, 155, 145>>) @@    \* C8 C8  U+D6D1
    (<<190, 208>> :> <<236, 149, 149>>) @@    \* BE D0  U+C555
    (<<153, 245>> :> <<236, 136, 149>>) @@    \* 99 F5  U+C215
    (<<153, 236>> :> <<236, 136, 136>>) @@    \* 99 EC  U+C208
    (<<157, 217>> :> <<236, 149, 155>>)       \* 9D D9  U+C55B

IndexJis0208 ==
    (<<130, 130>> :> <<239, 189, 130>>) @@    \* 82 82  U+FF42
    (<<130, 177>> :> <<227, 129, 147>>) @@    \* 82 B1  U+3053
    (<<130, 159>> :> <<227, 129, 129>>) @@    \* 82 9F  U+3041
    (<<130, 185>> :> <<227, 129, 155>>)       \* 82 B9  U+305B

Index(enc) ==
    CASE enc \in {"Gbk", "Gb18030"} -> IndexGb
      [] enc = "Big5" -> IndexBig5
      [] enc = "EucKr" -> IndexEucKr
      [] enc = "ShiftJis" -> IndexJis0208

\* get_encoding: None for Utf8, Some(codec) otherwise
get_encoding(encoding) ==
    IF encoding = "Utf8" THEN "None" ELSE encoding

IsLead(enc, b) ==
    IF enc = "ShiftJis" THEN InRange(b, 129, 159) \/ InRange(b, 224, 252)
    ELSE InRange(b, 129, 254)

IsTrail(enc, b) ==
    CASE enc \in {"Gbk", "Gb18030"} -> InRange(b, 64, 126) \/ InRange(b, 128, 254)
      [] enc = "Big5" -> InRange(b, 64, 126) \/ InRange(b, 161, 254)
      [] enc = "EucKr" -> InRange(b, 65, 254)
      [] enc = "ShiftJis" -> InRange(b, 64, 126) \/ InRange(b, 128, 252)

\* single bytes read the JIS X 0201 way under Shift-JIS: 5C is the yen sign
\* and 7E the overline
SingleByte_jis_roman(enc, b) ==
    IF enc = "ShiftJis" /\ b = 92 THEN Utf8Of(165)
    ELSE IF enc = "ShiftJis" /\ b = 126 THEN Utf8Of(8254)
    ELSE IF b < 128 THEN <<b>>
    ELSE IF enc \in {"Gbk", "Gb18030"} /\ b = 128 THEN Utf8Of(8364)
    ELSE IF enc = "ShiftJis" /\ b = 128 THEN Utf8Of(128)
    ELSE IF enc = "ShiftJis" /\ InRange(b, 161, 223) THEN Utf8Of(65377 - 161 + b)
    ELSE <<>>

\* a byte that is a character by itself
SingleByte(enc, b) ==
    IF b < 128 THEN <<b>>
    ELSE IF enc \in {"Gbk", "Gb18030"} /\ b = 128 THEN Utf8Of(8364)
    ELSE IF enc = "ShiftJis" /\ b = 128 THEN Utf8Of(128)
    ELSE IF enc = "ShiftJis" /\ InRange(b, 161, 223) THEN Utf8Of(65377 - 161 + b)
    ELSE <<>>

Char(n, out) == [kind |-> "char", len |-> n, out |-> out]
Malformed(n) == [kind |-> "error", len |-> n, out |-> <<>>]
Truncated(n) == [kind |-> "incomplete", len |-> n, out |-> <<>>]

\* the four-byte branch of the gb18030 decoder, at b[i] with b[i+1] a digit
Gb18030FourByte(b, i) ==
    IF i + 1 = Len(b) THEN Truncated(2)
    ELSE IF ~InRange(b[i + 2], 129, 254) THEN Malformed(1)
    ELSE IF i + 2 = Len(b) THEN Truncated(3)
    ELSE IF ~InRange(b[i + 3], 48, 57) THEN Malformed(1)
    ELSE IF SubSeq(b, i, i + 3) \in DOMAIN IndexGbRanges
         THEN Char(4, IndexGbRanges[SubSeq(b, i, i + 3)])
    ELSE Malformed(4)

\* one step of the codec's decoder at position i of b (i <= Len(b)):
\* a character, a malformed sequence, or a sequence cut by the end of b
DecodeUnit(enc, b, i) ==
    IF SingleByte(enc, b[i]) # <<>> THEN Char(1, SingleByte(enc, b[i]))
    ELSE IF ~IsLead(enc, b[i]) THEN Malformed(1)
    ELSE IF i = Len(b) THEN Truncated(1)
    ELSE IF enc \in {"Gbk", "Gb18030"} /\ InRange(b[i + 1], 48, 57)
         THEN Gb18030FourByte(b, i)
    ELSE IF IsTrail(enc, b[i + 1]) /\ <<b[i], b[i + 1]>> \in DOMAIN Index(enc)
         THEN Char(2, Index(enc)[<<b[i], b[i + 1]>>])
    ELSE IF b[i + 1] < 128 THEN Malformed(1)
    ELSE Malformed(2)

None == [some |-> FALSE, text |-> <<>>]
Some(t) == [some |-> TRUE, text |-> t]

\* Encoding::decode_without_bom_handling_and_without_replacement(b[i..])
RECURSIVE DecodeWithoutReplacementFrom(_, _, _)
DecodeWithoutReplacementFrom(enc, b, i) ==
    IF i > Len(b) THEN Some(<<>>)
    ELSE LET u == DecodeUnit(enc, b, i)
         IN  IF u.kind # "char" THEN None
             ELSE LET rest == DecodeWithoutReplacementFrom(enc, b, i + u.len)
                  IN  IF rest.some THEN Some(u.out \o rest.text) ELSE None

decode_without_replacement(enc, b) == DecodeWithoutReplacementFrom(enc, b, 1)

\* Encoding::decode(b[i..]): every malformed sequence becomes U+FFFD.
\* (decode also sniffs a byte order mark, EF BB BF, FF FE or FE FF, at the
\* start of its input; no alphabet of this model holds EF or FE.)
RECURSIVE DecodeWithReplacementFrom(_, _, _)
DecodeWithReplacementFrom(enc, b, i) ==
    IF i > Len(b) THEN <<>>
    ELSE LET u == DecodeUnit(enc, b, i)
         IN  CASE u.kind = "char" ->
                    u.out \o DecodeWithReplacementFrom(enc, b, i + u.len)
               [] u.kind = "error" ->
                    REPLACEMENT_CHARACTER
                        \o DecodeWithReplacementFrom(enc, b, i + u.len)
               [] OTHER -> REPLACEMENT_CHARACTER

decode_with_replacement(enc, b) == DecodeWithReplacementFrom(enc, b, 1)

---------------------------------------------------------------------------
(* std::str::from_utf8 and the codec's encoder.                            *)

IsCont(b) == InRange(b, 128, 191)

\* the width core::str gives a first byte (0: not a first byte)
Utf8CharWidth(first) ==
    IF first < 128 THEN 1
    ELSE IF InRange(first, 194, 223) THEN 2
    ELSE IF InRange(first, 224, 239) THEN 3
    ELSE IF InRange(first, 240, 244) THEN 4
    ELSE 0

\* the second byte of a 3- or 4-byte sequence is in the range its first allows
SecondOk(first, second) ==
    CASE first = 224 -> InRange(second, 160, 191)
      [] first = 237 -> InRange(second, 128, 159)
      [] first = 240 -> InRange(second, 144, 191)
      [] first = 244 -> InRange(second, 128, 143)
      [] OTHER -> IsCont(second)

\* one step of from_utf8 at position i of b: a character of len bytes, an
\* invalid sequence (error_len = Some(len)) or a cut one (error_len = None)
Utf8Unit(b, i) ==
    LET w == Utf8CharWidth(b[i])
        n == Len(b)
    IN  IF w = 1 THEN Char(1, <<b[i]>>)
        ELSE IF w = 0 THEN Malformed(1)
        ELSE IF i + 1 > n THEN Truncated(1)
        ELSE IF w = 2 THEN
            IF IsCont(b[i + 1]) THEN Char(2, SubSeq(b, i, i + 1))
            ELSE Malformed(1)
        ELSE IF ~SecondOk(b[i], b[i + 1]) THEN Malformed(1)
        ELSE IF i + 2 > n THEN Truncated(2)
        ELSE IF ~IsCont(b[i + 2]) THEN Malformed(2)
        ELSE IF w = 3 THEN Char(3, SubSeq(b, i, i + 2))
        ELSE IF i + 3 > n THEN Truncated(3)
        ELSE IF ~IsCont(b[i + 3]) THEN Malformed(3)
        ELSE Char(4, SubSeq(b, i, i + 3))

\* Utf8Error::valid_up_to of from_utf8(b[i..]), as the position (1-based) of
\* the first byte that is not part of a valid character; Len(b)+1 when Ok
RECURSIVE ValidEnd(_, _)
ValidEnd(b, i) ==
    IF i > Len(b) THEN i
    ELSE LET u == Utf8Unit(b, i)
         IN  IF u.kind = "char" THEN ValidEnd(b, i + u.len) ELSE i

\* the decimal digits of n as ASCII bytes
RECURSIVE Decimal(_)
Decimal(n) ==
    IF n < 10 THEN <<48 + n>> ELSE Decimal(n \div 10) \o <<48 + (n % 10)>>

\* the numeric character reference the encoder writes for an unmappable
\* character: &#NNNN;
NumericCharacterReference(ch) == <<38, 35>> \o Decimal(CodePoint(ch)) \o <<59>>

\* pointers of index Big5 the encoder leaves out: lead bytes below A1
EncoderUses(enc, p) == enc # "Big5" \/ p[1] >= 161

IndexPointers(enc, ch) ==
    {p \in DOMAIN Index(enc) : Index(enc)[p] = ch /\ EncoderUses(enc, p)}

\* the codec's encoding of one character (a well-formed UTF-8 sequence)
EncodeChar(enc, ch) ==
    IF Len(ch) = 1 THEN ch
    ELSE IF enc = "Gbk" /\ ch = Utf8Of(8364) THEN <<128>>
    ELSE IF enc = "ShiftJis" /\ ch = Utf8Of(128) THEN <<128>>
    ELSE IF enc = "ShiftJis" /\ InRange(CodePoint(ch), 65377, 65439)
         THEN <<CodePoint(ch) - 65377 + 161>>
    ELSE IF IndexPointers(enc, ch) # {}
         THEN CHOOSE p \in IndexPointers(enc, ch) : TRUE
    ELSE IF enc = "Gb18030"
            /\ \E q \in DOMAIN IndexGbRanges : IndexGbRanges[q] = ch
         THEN CHOOSE q \in DOMAIN IndexGbRanges : IndexGbRanges[q] = ch
    ELSE NumericCharacterReference(ch)

\* Encoding::encode(text) for b[i..j], a well-formed UTF-8 string
RECURSIVE EncodeStr(_, _, _, _)
EncodeStr(enc, b, i, j) ==
    IF i > j THEN <<>>
    ELSE LET u == Utf8Unit(b, i)
         IN  EncodeChar(enc, u.out) \o EncodeStr(enc, b, i + u.len, j)

---------------------------------------------------------------------------
(* decode_bytes_to_string.                                                 *)

\* String::from_utf8_lossy(b[i..]): every invalid sequence, and a sequence
\* cut by the end of b, becomes U+FFFD
RECURSIVE FromUtf8LossyFrom(_, _)
FromUtf8LossyFrom(b, i) ==
    IF i > Len(b) THEN <<>>
    ELSE LET u == Utf8Unit(b, i)
         IN  CASE u.kind = "char" -> u.out \o FromUtf8LossyFrom(b, i + u.len)
               [] u.kind = "error" ->
                    REPLACEMENT_CHARACTER \o FromUtf8LossyFrom(b, i + u.len)
               [] OTHER -> REPLACEMENT_CHARACTER

from_utf8_lossy(b) == FromUtf8LossyFrom(b, 1)

\* std::str::from_utf8(b).is_ok()
from_utf8_is_ok(b) == ValidEnd(b, 1) > Len(b)

\* decode_bytes_to_string with the codec asked before from_utf8
decode_bytes_to_string_codec_first(encoding, raw) ==
    IF get_encoding(encoding) # "None"
    THEN decode_with_replacement(get_encoding(encoding), raw)
    ELSE IF from_utf8_is_ok(raw) THEN raw
    ELSE from_utf8_lossy(raw)

\* decode_bytes_to_string(encoding, raw)
decode_bytes_to_string(encoding, raw) ==
    IF from_utf8_is_ok(raw) THEN raw
    ELSE IF get_encoding(encoding) # "None"
    THEN decode_with_replacement(get_encoding(encoding), raw)
    ELSE from_utf8_lossy(raw)

---------------------------------------------------------------------------
(* PaneOutputDecoder.                                                      *)

Max(a, b) == IF a >= b THEN a ELSE b
Prefix(b, n) == SubSeq(b, 1, n)
Suffix(b, n) == SubSeq(b, n + 1, Len(b))

\* Default::default() of PaneOutputDecoder and of PaneInputEncoder
DefaultInstance ==
    [encoding |-> "Utf8", state |-> "Ground", escape_bytes |-> <<>>,
     pending |-> <<>>]

\* the reset with the carry-over buffer left as it was
ResetOnSwitch_pending_kept(inst, encoding) ==
    IF inst.encoding # encoding
    THEN [encoding |-> encoding, state |-> "Ground", escape_bytes |-> <<>>,
          pending |-> inst.pending]
    ELSE inst

\* the reset with the scan state and the escape buffer left as they were
ResetOnSwitch_escape_kept(inst, encoding) ==
    IF inst.encoding # encoding
    THEN [encoding |-> encoding, state |-> inst.state,
          escape_bytes |-> inst.escape_bytes, pending |-> <<>>]
    ELSE inst

\* the reset at the head of decode and of encode
ResetOnSwitch(inst, encoding) ==
    IF inst.encoding # encoding
    THEN [encoding |-> encoding, state |-> "Ground", escape_bytes |-> <<>>,
          pending |-> <<>>]
    ELSE inst

\* min_prefix by a plain subtraction: below zero, where usize has no value,
\* when fewer than MAX_TRAILING_ENCODED_BYTES bytes are pending
MinPrefix_plain_subtraction(len) ==
    IF len < MAX_TRAILING_ENCODED_BYTES
    THEN len - MAX_TRAILING_ENCODED_BYTES
    ELSE Max(len - MAX_TRAILING_ENCODED_BYTES, 1)

\* pending.len().saturating_sub(MAX_TRAILING_ENCODED_BYTES).max(1)
MinPrefix(len) == Max(Max(len - MAX_TRAILING_ENCODED_BYTES, 0), 1)

\* the split lengths the loop of decode_text accepts
CleanSplits(enc, pending) ==
    {split \in MinPrefix(Len(pending)) .. Len(pending) :
        decode_without_replacement(enc, Prefix(pending, split)).some}

SetMax(S) == CHOOSE x \in S : \A y \in S : y <= x

\* decode_text that keeps buffering whatever the length of the buffer
decode_text_never_forced(encoding, input, carried) ==
    LET pending == carried \o input
    IN  IF get_encoding(encoding) = "None"
        THEN [pending |-> <<>>, emitted |-> pending]
        ELSE IF CleanSplits(encoding, pending) # {}
        THEN [pending |-> Suffix(pending, SetMax(CleanSplits(encoding, pending))),
              emitted |->
                decode_without_replacement(encoding,
                    Prefix(pending, SetMax(CleanSplits(encoding, pending)))).text]
        ELSE [pending |-> pending, emitted |-> <<>>]

\* decode_text that still buffers when one byte more than
\* MAX_TRAILING_ENCODED_BYTES is pending
decode_text_forced_one_late(encoding, input, carried) ==
    LET pending == carried \o input
    IN  IF get_encoding(encoding) = "None"
        THEN [pending |-> <<>>, emitted |-> pending]
        ELSE IF CleanSplits(encoding, pending) # {}
        THEN [pending |-> Suffix(pending, SetMax(CleanSplits(encoding, pending))),
              emitted |->
                decode_without_replacement(encoding,
                    Prefix(pending, SetMax(CleanSplits(encoding, pending)))).text]
        ELSE IF Len(pending) <= MAX_TRAILING_ENCODED_BYTES + 1
        THEN [pending |-> pending, emitted |-> <<>>]
        ELSE [pending |-> <<>>,
              emitted |-> decode_with_replacement(encoding, pending)]

\* decode_text(encoding, input, output) on self.pending_encoded = carried:
\* the new pending_encoded and what is appended to output
decode_text(encoding, input, carried) ==
    LET pending == carried \o input
    IN  IF get_encoding(encoding) = "None"
        THEN [pending |-> <<>>, emitted |-> pending]
        ELSE IF CleanSplits(encoding, pending) # {}
        THEN LET split == SetMax(CleanSplits(encoding, pending))
             IN  [pending |-> Suffix(pending, split),
                  emitted |->
                    decode_without_replacement(encoding, Prefix(pending, split)).text]
        ELSE IF Len(pending) <= MAX_TRAILING_ENCODED_BYTES
        THEN [pending |-> pending, emitted |-> <<>>]
        ELSE [pending |-> <<>>,
              emitted |-> decode_with_replacement(encoding, pending)]

\* the loop variables of decode and encode: the instance fields, output and
\* text_start (the position of the first byte of the open text run)
LoopStart(inst) ==
    [state |-> inst.state, escape_bytes |-> inst.escape_bytes,
     pending |-> inst.pending, output |-> <<>>, text_start |-> 1]

\* the text run data[text_start..idx) is handed to decode_text
TextDone(acc, r) ==
    [acc EXCEPT !.pending = r.pending, !.output = @ \o r.emitted]

DecodeRun(encoding, data, idx, acc) ==
    TextDone(acc, decode_text(encoding,
                SubSeq(data, acc.text_start, idx - 1), acc.pending))

\* AccumulateEscape that hands every byte of a control sequence on as it comes
AccumulateEscape_byte_by_byte(byte, idx, acc) ==
    LET next == advance_escape(acc.state, byte)
        bytes == Append(acc.escape_bytes, byte)
    IN  IF next = "Ground"
        THEN [acc EXCEPT !.state = next, !.escape_bytes = <<>>,
                         !.output = @ \o <<byte>>, !.text_start = idx + 1]
        ELSE [acc EXCEPT !.state = next, !.escape_bytes = bytes,
                         !.output = @ \o <<byte>>]

\* an escape byte is accumulated; the run is flushed when Ground is reached
AccumulateEscape(byte, idx, acc) ==
    LET next == advance_escape(acc.state, byte)
        bytes == Append(acc.escape_bytes, byte)
    IN  IF next = "Ground"
        THEN [acc EXCEPT !.state = next, !.escape_bytes = <<>>,
                         !.output = @ \o bytes, !.text_start = idx + 1]
        ELSE [acc EXCEPT !.state = next, !.escape_bytes = bytes]

\* begin_escape in the loop with the introducer left out of escape_bytes
BeginEscape_introducer_not_held(byte, idx, acc) ==
    [acc EXCEPT !.state = begin_escape(byte).state,
                !.text_start = idx + 1]

\* begin_escape in the loop: the run starts with the introducer
BeginEscape(byte, idx, acc) ==
    [acc EXCEPT !.state = begin_escape(byte).state,
                !.escape_bytes = begin_escape(byte).escape_bytes,
                !.text_start = idx + 1]

\* the for loop of decode, from position idx on
RECURSIVE DecodeLoop(_, _, _, _)
DecodeLoop(encoding, data, idx, acc) ==
    IF idx > Len(data) THEN acc
    ELSE IF acc.state = "Ground" /\ IsIntroducer(data[idx])
    THEN DecodeLoop(encoding, data, idx + 1,
            BeginEscape(data[idx], idx,
                IF idx > acc.text_start
                THEN DecodeRun(encoding, data, idx, acc) ELSE acc))
    ELSE IF acc.state # "Ground"
    THEN DecodeLoop(encoding, data, idx + 1,
                    AccumulateEscape(data[idx], idx, acc))
    ELSE DecodeLoop(encoding, data, idx + 1, acc)

\* the text that is still open when the loop ends
DecodeTail(encoding, data, acc) ==
    IF acc.state = "Ground" /\ acc.text_start <= Len(data)
    THEN DecodeRun(encoding, data, Len(data) + 1, acc)
    ELSE acc

Result(encoding, acc) ==
    [inst |-> [encoding |-> encoding, state |-> acc.state,
               escape_bytes |-> acc.escape_bytes, pending |-> acc.pending],
     out |-> acc.output]

\* decode without the early return for Utf8
decode_without_identity(inst, encoding, data) ==
    Result(encoding,
        DecodeTail(encoding, data,
            DecodeLoop(encoding, data, 1,
                LoopStart(ResetOnSwitch(inst, encoding)))))

\* PaneOutputDecoder::decode(&mut self, encoding, data): the instance after
\* the call and the returned bytes
decode(inst, encoding, data) ==
    LET self == ResetOnSwitch(inst, encoding)
    IN  IF encoding = "Utf8" THEN [inst |-> self, out |-> data]
        ELSE Result(encoding,
                DecodeTail(encoding, data,
                    DecodeLoop(encoding, data, 1, LoopStart(self))))

---------------------------------------------------------------------------
(* PaneInputEncoder.                                                       *)

\* push_encoded(encoding, text, output) for text = b[i..j]
push_encoded(encoding, b, i, j) ==
    IF get_encoding(encoding) = "None" THEN SubSeq(b, i, j)
    ELSE EncodeStr(encoding, b, i, j)

\* the while loop of encode_text with the cursor moved one byte past an
\* invalid unit, whatever its length
RECURSIVE EncodeTextFrom_one_byte_skipped(_, _, _)
EncodeTextFrom_one_byte_skipped(encoding, pending, cursor) ==
    IF cursor > Len(pending) THEN [pending |-> <<>>, emitted |-> <<>>]
    ELSE LET stop == ValidEnd(pending, cursor)
             valid == push_encoded(encoding, pending, cursor, stop - 1)
         IN  IF stop > Len(pending)
             THEN [pending |-> <<>>, emitted |-> valid]
             ELSE IF Utf8Unit(pending, stop).kind = "incomplete"
             THEN [pending |-> Suffix(pending, stop - 1), emitted |-> valid]
             ELSE LET rest == EncodeTextFrom_one_byte_skipped(encoding,
                                    pending, stop + 1)
                  IN  [pending |-> rest.pending,
                       emitted |-> valid \o <<QUESTION_MARK>> \o rest.emitted]

\* the while loop of encode_text with an invalid unit at the end of the
\* buffer held back like a cut one
RECURSIVE EncodeTextFrom_invalid_tail_held(_, _, _)
EncodeTextFrom_invalid_tail_held(encoding, pending, cursor) ==
    IF cursor > Len(pending) THEN [pending |-> <<>>, emitted |-> <<>>]
    ELSE LET stop == ValidEnd(pending, cursor)
             valid == push_encoded(encoding, pending, cursor, stop - 1)
         IN  IF stop > Len(pending)
             THEN [pending |-> <<>>, emitted |-> valid]
             ELSE IF \/ Utf8Unit(pending, stop).kind = "incomplete"
                     \/ stop + Utf8Unit(pending, stop).len > Len(pending)
             THEN [pending |-> Suffix(pending, stop - 1), emitted |-> valid]
             ELSE LET rest == EncodeTextFrom_invalid_tail_held(encoding,
                                pending, stop + Utf8Unit(pending, stop).len)
                  IN  [pending |-> rest.pending,
                       emitted |-> valid \o <<QUESTION_MARK>> \o rest.emitted]

\* the while loop of encode_text from cursor on: the new pending_utf8 and
\* what is appended to output
RECURSIVE EncodeTextFrom(_, _, _)
EncodeTextFrom(encoding, pending, cursor) ==
    IF cursor > Len(pending) THEN [pending |-> <<>>, emitted |-> <<>>]
    ELSE LET stop == ValidEnd(pending, cursor)
             valid == push_encoded(encoding, pending, cursor, stop - 1)
         IN  IF stop > Len(pending)
             THEN [pending |-> <<>>, emitted |-> valid]
             ELSE IF Utf8Unit(pending, stop).kind = "incomplete"
             THEN [pending |-> Suffix(pending, stop - 1), emitted |-> valid]
             ELSE LET rest == EncodeTextFrom(encoding, pending,
                                    stop + Utf8Unit(pending, stop).len)
                  IN  [pending |-> rest.pending,
                       emitted |-> valid \o <<QUESTION_MARK>> \o rest.emitted]

\* encode_text with the carried bytes dropped
encode_text_carry_dropped(encoding, text, carried) ==
    EncodeTextFrom(encoding, text, 1)

\* encode_text(encoding, text, output) on self.pending_utf8 = carried
encode_text(encoding, text, carried) ==
    EncodeTextFrom(encoding, carried \o text, 1)

EncodeRun(encoding, data, idx, acc) ==
    TextDone(acc, encode_text(encoding,
                SubSeq(data, acc.text_start, idx - 1), acc.pending))

\* the for loop of encode, from position idx on
RECURSIVE EncodeLoop(_, _, _, _)
EncodeLoop(encoding, data, idx, acc) ==
    IF idx > Len(data) THEN acc
    ELSE IF acc.state = "Ground" /\ IsIntroducer(data[idx])
    THEN EncodeLoop(encoding, data, idx + 1,
            BeginEscape(data[idx], idx,
                IF idx > acc.text_start
                THEN EncodeRun(encoding, data, idx, acc) ELSE acc))
    ELSE IF acc.state # "Ground"
    THEN EncodeLoop(encoding, data, idx + 1,
                    AccumulateEscape(data[idx], idx, acc))
    ELSE EncodeLoop(encoding, data, idx + 1, acc)

EncodeTail(encoding, data, acc) ==
    IF acc.state = "Ground" /\ acc.text_start <= Len(data)
    THEN EncodeRun(encoding, data, Len(data) + 1, acc)
    ELSE acc

\* PaneInputEncoder::encode(&mut self, encoding, data)
encode(inst, encoding, data) ==
    LET self == ResetOnSwitch(inst, encoding)
    IN  IF encoding = "Utf8" THEN [inst |-> self, out |-> data]
        ELSE Result(encoding,
                EncodeTail(encoding, data,
                    EncodeLoop(encoding, data, 1, LoopStart(self))))

---------------------------------------------------------------------------
(* The steps the loops take.                                               *)

\* the cursor of encode_text after an iteration that only adds valid_len
NextCursor_error_not_skipped(pending, cursor) == ValidEnd(pending, cursor)

\* the cursor of encode_text after an iteration that does not return:
\* cursor += valid_len; cursor += err.error_len().unwrap_or(1)
NextCursor(pending, cursor) ==
    ValidEnd(pending, cursor)
        + Utf8Unit(pending, ValidEnd(pending, cursor)).len

\* the values of cursor at the head of the while loop of encode_text, and
\* whether the loop has ended within fuel iterations
RECURSIVE EncodeTextCursors(_, _, _)
EncodeTextCursors(pending, cursor, fuel) ==
    IF cursor > Len(pending) THEN [done |-> TRUE, cursors |-> <<>>]
    ELSE IF fuel = 0 THEN [done |-> FALSE, cursors |-> <<>>]
    ELSE LET stop == ValidEnd(pending, cursor)
         IN  IF stop > Len(pending)
             THEN [done |-> TRUE, cursors |-> <<cursor>>]
             ELSE IF Utf8Unit(pending, stop).kind = "incomplete"
             THEN [done |-> TRUE, cursors |-> <<cursor>>]
             ELSE LET rest == EncodeTextCursors(pending,
                                NextCursor(pending, cursor), fuel - 1)
                  IN  [done |-> rest.done,
                       cursors |-> <<cursor>> \o rest.cursors]

\* the prefix lengths the for loop of decode_text tries
SplitsTried(len) == MinPrefix(len) .. len

\* the positions the for loop of decode and of encode visits, from idx on
RECURSIVE LoopVisits(_, _)
LoopVisits(data, idx) ==
    IF idx > Len(data) THEN <<>> ELSE <<idx>> \o LoopVisits(data, idx + 1)

---------------------------------------------------------------------------
(* The slices the two conversions take.  A Rust slice b[from..to] panics   *)
(* unless 0 <= from <= to <= b.len(); from and to are 0-based here.        *)

SliceInRange(len, from, to) == 0 <= from /\ from <= to /\ to <= len

\* decode_text: pending[..split] and pending[split..] for every split tried
DecodeTextInRange(pending) ==
    \A split \in MinPrefix(Len(pending)) .. Len(pending) :
        /\ SliceInRange(Len(pending), 0, split)
        /\ SliceInRange(Len(pending), split, Len(pending))

\* decode: data[text_start..idx], data[text_start..] and what decode_text
\* does with them, from position idx of the loop on
RECURSIVE DecodeLoopInRange(_, _, _, _)
DecodeLoopInRange(encoding, data, idx, acc) ==
    IF idx > Len(data)
    THEN (acc.state = "Ground" /\ acc.text_start <= Len(data))
            => /\ SliceInRange(Len(data), acc.text_start - 1, Len(data))
               /\ DecodeTextInRange(
                    acc.pending \o SubSeq(data, acc.text_start, Len(data)))
    ELSE IF acc.state = "Ground" /\ IsIntroducer(data[idx])
    THEN /\ (idx > acc.text_start)
                => /\ SliceInRange(Len(data), acc.text_start - 1, idx - 1)
                   /\ DecodeTextInRange(
                        acc.pending \o SubSeq(data, acc.text_start, idx - 1))
         /\ DecodeLoopInRange(encoding, data, idx + 1,
                BeginEscape(data[idx], idx,
                    IF idx > acc.text_start
                    THEN DecodeRun(encoding, data, idx, acc) ELSE acc))
    ELSE IF acc.state # "Ground"
    THEN DecodeLoopInRange(encoding, data, idx + 1,
                           AccumulateEscape(data[idx], idx, acc))
    ELSE DecodeLoopInRange(encoding, data, idx + 1, acc)

\* every slice of one decode call is in range
DecodeInRange(inst, encoding, data) ==
    \/ encoding = "Utf8"
    \/ DecodeLoopInRange(encoding, data, 1,
            LoopStart(ResetOnSwitch(inst, encoding)))

\* encode_text: pending[cursor..], pending[cursor..cursor + valid_len] and
\* the cursor after an invalid unit, from cursor on
RECURSIVE EncodeTextInRange(_, _)
EncodeTextInRange(pending, cursor) ==
    IF cursor > Len(pending) THEN TRUE
    ELSE /\ SliceInRange(Len(pending), cursor - 1, Len(pending))
         /\ \/ ValidEnd(pending, cursor) > Len(pending)
            \/ /\ SliceInRange(Len(pending), cursor - 1,
                               ValidEnd(pending, cursor) - 1)
               /\ IF Utf8Unit(pending, ValidEnd(pending, cursor)).kind
                        = "incomplete"
                  THEN SliceInRange(Len(pending),
                            ValidEnd(pending, cursor) - 1, Len(pending))
                  ELSE EncodeTextInRange(pending,
                            ValidEnd(pending, cursor)
                              + Utf8Unit(pending, ValidEnd(pending, cursor)).len)

\* encode: data[text_start..idx], data[text_start..] and what encode_text
\* does with them, from position idx of the loop on
RECURSIVE EncodeLoopInRange(_, _, _, _)
EncodeLoopInRange(encoding, data, idx, acc) ==
    IF idx > Len(data)
    THEN (acc.state = "Ground" /\ acc.text_start <= Len(data))
            => /\ SliceInRange(Len(data), acc.text_start - 1, Len(data))
               /\ EncodeTextInRange(
                    acc.pending \o SubSeq(data, acc.text_start, Len(data)), 1)
    ELSE IF acc.state = "Ground" /\ IsIntroducer(data[idx])
    THEN /\ (idx > acc.text_start)
                => /\ SliceInRange(Len(data), acc.text_start - 1, idx - 1)
                   /\ EncodeTextInRange(
                        acc.pending \o SubSeq(data, acc.text_start, idx - 1), 1)
         /\ EncodeLoopInRange(encoding, data, idx + 1,
                BeginEscape(data[idx], idx,
                    IF idx > acc.text_start
                    THEN EncodeRun(encoding, data, idx, acc) ELSE acc))
    ELSE IF acc.state # "Ground"
    THEN EncodeLoopInRange(encoding, data, idx + 1,
                           AccumulateEscape(data[idx], idx, acc))
    ELSE EncodeLoopInRange(encoding, data, idx + 1, acc)

\* every slice of one encode call is in range
EncodeInRange(inst, encoding, data) ==
    \/ encoding = "Utf8"
    \/ EncodeLoopInRange(encoding, data, 1,
            LoopStart(ResetOnSwitch(inst, encoding)))

---------------------------------------------------------------------------
(* Inputs.                                                                 *)

\* the nonempty byte strings over S of at most n bytes
Strings(S, n) == UNION {[1 .. k -> S] : k \in 1 .. n}

\* bytes a remote program writes: 'A', ESC, the 8-bit CSI, and a lead and a
\* trail byte of the encoding ('1' and 81 for the four-byte form of gb18030)
MixedBytes(enc) ==
    CASE enc = "Gbk" -> {65, 27, 155, 196, 227}
      [] enc = "Gb18030" -> {65, 27, 155, 129, 49}
      [] enc = "Big5" -> {65, 27, 155, 167, 166}
      [] enc = "EucKr" -> {65, 27, 155, 190, 200}
      [] enc = "ShiftJis" -> {65, 27, 155, 130, 177}
      [] enc = "Utf8" -> {65, 27, 155, 196}

\* text bytes only, with FF, which no encoding accepts
MalformedBytes(enc) ==
    CASE enc = "Gbk" -> {196, 227, 255}
      [] enc = "Gb18030" -> {129, 49, 255}
      [] enc = "Big5" -> {167, 166, 255}
      [] enc = "EucKr" -> {190, 200, 255}
      [] enc = "ShiftJis" -> {130, 177, 255}
      [] enc = "Utf8" -> {196, 255}

\* 'A', the 8-bit CSI and a lead byte: what leaves a carry-over or an open
\* control sequence behind, and what would complete either
SwitchBytes(enc) ==
    CASE enc \in {"Gbk", "Utf8"} -> {65, 155, 196}
      [] enc = "Gb18030" -> {65, 155, 129}
      [] enc = "Big5" -> {65, 155, 167}
      [] enc = "EucKr" -> {65, 155, 190}
      [] enc = "ShiftJis" -> {65, 155, 130}

\* text bytes of the control profile
TextBytes(enc) == MixedBytes(enc) \ {27, 155}

\* well-formed control sequences: CSI (ESC [ and 9B) with parameter bytes
\* and a final byte, OSC ended by BEL or ESC \, DCS ended by ESC \
CsiBodies == {p \o <<f>> : p \in {<<>>, <<51>>, <<59>>, <<51, 49>>}, f \in {109, 72}}
Payloads == {<<>>, <<48>>, <<196>>, <<48, 59>>}
ControlSequences ==
    {<<27, 91>> \o c : c \in CsiBodies}
        \cup {<<155>> \o c : c \in CsiBodies}
        \cup {<<27, 93>> \o q \o <<7>> : q \in Payloads}
        \cup {<<27, 93>> \o q \o <<27, 92>> : q \in Payloads}
        \cup {<<27, 80>> \o q \o <<27, 92>> : q \in Payloads}

\* the characters of the codec table, and 'A'
TableChars(enc) ==
    {<<65>>} \cup DOMAIN Index(enc)
        \cup (IF enc = "Gb18030" THEN DOMAIN IndexGbRanges ELSE {})

\* one character, one control sequence, one character
MixedStreams(enc) ==
    {c1 \o q \o c2 :
        c1 \in TableChars(enc), q \in ControlSequences, c2 \in TableChars(enc)}

DecoderProfiles == {"mixed", "malformed", "control", "stream"}

\* the data a decode call under encoding enc may be given next
DecodeInputs(enc) ==
    CASE profile = "mixed" ->
            Strings(MixedBytes(enc), MaxInput - Len(d_in))
      [] profile = "malformed" ->
            Strings(MalformedBytes(enc), MaxLong - Len(d_in))
      [] profile = "control" ->
            IF d_calls < MaxCalls
            THEN Strings(TextBytes(enc), 2) \cup ControlSequences
            ELSE {}
      [] profile = "switch" ->
            IF d_calls < MaxSwitchCalls
            THEN Strings(SwitchBytes(enc), MaxSwitchInput)
            ELSE {}
      [] profile = "stream" ->
            IF d_calls = 0 /\ enc \in LegacyEncodings
            THEN MixedStreams(enc)
            ELSE {}
      [] OTHER -> {}

---------------------------------------------------------------------------
(* The decoder of one pane, called once per chunk read from the pty.       *)

DecoderInstance ==
    [encoding |-> d_encoding, state |-> d_state,
     escape_bytes |-> d_escape_bytes, pending |-> d_pending]

EncoderInstance ==
    [encoding |-> e_encoding, state |-> e_state,
     escape_bytes |-> e_escape_bytes, pending |-> e_pending]

DecoderIdle ==
    /\ d_encoding = "Utf8" /\ d_state = "Ground"
    /\ d_escape_bytes = <<>> /\ d_pending = <<>>
    /\ d_pre = DefaultInstance /\ d_data = <<>> /\ d_ret = <<>>
    /\ d_in = <<>> /\ d_out = <<>> /\ d_calls = 0

EncoderIdle ==
    /\ e_encoding = "Utf8" /\ e_state = "Ground"
    /\ e_escape_bytes = <<>> /\ e_pending = <<>>
    /\ e_pre = DefaultInstance /\ e_data = <<>> /\ e_ret = <<>>
    /\ e_in = <<>> /\ e_out = <<>> /\ e_calls = 0

RegistryIdle ==
    /\ LAST_SELECTED_ENCODING = 0
    /\ r_recorded = <<>> /\ r_called = FALSE
    /\ r_seen = <<>> /\ r_ret = <<>>
    /\ r_pc = "idle" /\ r_last = 0 /\ r_returned = <<>>

ConversionIdle ==
    /\ s_encoding = "Utf8" /\ s_raw = <<>> /\ s_text = <<>>
    /\ s_called = FALSE

\* decoder.decode(encoding, data) on the pane's decoder
DecodeCall(encoding, data) ==
    \E r \in {decode(DecoderInstance, encoding, data)} :
        /\ d_encoding' = r.inst.encoding
        /\ d_state' = r.inst.state
        /\ d_escape_bytes' = r.inst.escape_bytes
        /\ d_pending' = r.inst.pending
        /\ d_pre' = DecoderInstance
        /\ d_data' = data
        /\ d_ret' = r.out
        /\ d_in' = IF encoding # d_encoding THEN data ELSE d_in \o data
        /\ d_out' = IF encoding # d_encoding THEN r.out ELSE d_out \o r.out
        /\ d_calls' = d_calls + 1
        /\ UNCHANGED <<profile, evars, rvars, svars>>

\* a further chunk under the active encoding
DecodeSame ==
    \E data \in DecodeInputs(d_encoding) : DecodeCall(d_encoding, data)

\* the first chunk of a new decoder under a legacy encoding
DecodeFirst ==
    /\ d_calls = 0
    /\ \E encoding \in LegacyEncodings :
        \E data \in DecodeInputs(encoding) : DecodeCall(encoding, data)

\* the pane's encoding is changed while the decoder is in use
DecodeSwitch ==
    /\ d_calls > 0
    /\ profile = "switch"
    /\ \E encoding \in PaneEncoding \ {d_encoding} :
        \E data \in DecodeInputs(encoding) : DecodeCall(encoding, data)


InitDecoder ==
    /\ profile \in DecoderProfiles
    /\ DecoderIdle /\ EncoderIdle /\ RegistryIdle /\ ConversionIdle

NextDecoder == DecodeSame \/ DecodeFirst

SpecDecoder == InitDecoder /\ [][NextDecoder]_vars

---------------------------------------------------------------------------
(* The encoder of one pane, called once per chunk of keyboard or paste     *)
(* input.                                                                  *)

\* bytes of keyboard and paste input: 'A', ESC, the 8-bit CSI, and the three
\* bytes of a character of the encoding in UTF-8
PasteBytes(enc) ==
    CASE enc \in {"Gbk", "Gb18030", "Big5", "Utf8"} ->
            {65, 27, 155, 228, 189, 160}                \* E4 BD A0  U+4F60
      [] enc = "EucKr" -> {65, 27, 155, 236, 149, 136}  \* EC 95 88  U+C548
      [] enc = "ShiftJis" -> {65, 27, 155, 227, 129, 147} \* E3 81 93  U+3053

\* 'A', the 8-bit CSI and the first byte of a three-byte character
PasteSwitchBytes == {65, 155, 228}

\* the characters of the codec table that the codec's encoder can write
Representable(enc) ==
    {<<65>>}
        \cup {Index(enc)[p] : p \in {q \in DOMAIN Index(enc) : EncoderUses(enc, q)}}
        \cup (IF enc = "Gb18030"
              THEN {IndexGbRanges[p] : p \in DOMAIN IndexGbRanges} ELSE {})

\* one character, one control sequence, one character, in UTF-8
PasteStreams(enc) ==
    {c1 \o q \o c2 :
        c1 \in Representable(enc), q \in ControlSequences,
        c2 \in Representable(enc)}

EncoderProfiles == {"paste", "paste_stream"}

\* the data an encode call under encoding enc may be given next
EncodeInputs(enc) ==
    CASE profile = "paste" ->
            Strings(PasteBytes(enc), MaxEncInput - Len(e_in))
      [] profile = "paste_switch" ->
            IF e_calls < MaxSwitchCalls
            THEN Strings(PasteSwitchBytes, MaxSwitchInput)
            ELSE {}
      [] profile = "paste_stream" ->
            IF e_calls = 0 /\ enc \in LegacyEncodings
            THEN PasteStreams(enc)
            ELSE {}
      [] OTHER -> {}

\* encoder.encode(encoding, data) on the pane's encoder
EncodeCall(encoding, data) ==
    \E r \in {encode(EncoderInstance, encoding, data)} :
        /\ e_encoding' = r.inst.encoding
        /\ e_state' = r.inst.state
        /\ e_escape_bytes' = r.inst.escape_bytes
        /\ e_pending' = r.inst.pending
        /\ e_pre' = EncoderInstance
        /\ e_data' = data
        /\ e_ret' = r.out
        /\ e_in' = IF encoding # e_encoding THEN data ELSE e_in \o data
        /\ e_out' = IF encoding # e_encoding THEN r.out ELSE e_out \o r.out
        /\ e_calls' = e_calls + 1
        /\ UNCHANGED <<profile, dvars, rvars, svars>>

\* a further chunk under the active encoding
EncodeSame ==
    \E data \in EncodeInputs(e_encoding) : EncodeCall(e_encoding, data)

\* the first chunk of a new encoder under a legacy encoding
EncodeFirst ==
    /\ e_calls = 0
    /\ \E encoding \in LegacyEncodings :
        \E data \in EncodeInputs(encoding) : EncodeCall(encoding, data)

\* the pane's encoding is changed while the encoder is in use
EncodeSwitch ==
    /\ e_calls > 0
    /\ profile = "paste_switch"
    /\ \E encoding \in PaneEncoding \ {e_encoding} :
        \E data \in EncodeInputs(encoding) : EncodeCall(encoding, data)

InitEncoder ==
    /\ profile \in EncoderProfiles
    /\ DecoderIdle /\ EncoderIdle /\ RegistryIdle /\ ConversionIdle

NextEncoder == EncodeSame \/ EncodeFirst

SpecEncoder == InitEncoder /\ [][NextEncoder]_vars

---------------------------------------------------------------------------
(* A pane whose encoding is changed between calls.                         *)

SwitchProfiles == {"switch", "paste_switch"}

InitSwitch ==
    /\ profile \in SwitchProfiles
    /\ DecoderIdle /\ EncoderIdle /\ RegistryIdle /\ ConversionIdle

NextSwitch ==
    \/ DecodeSame
    \/ DecodeFirst
    \/ DecodeSwitch
    \/ EncodeSame
    \/ EncodeFirst
    \/ EncodeSwitch

SpecSwitch == InitSwitch /\ [][NextSwitch]_vars

---------------------------------------------------------------------------
(* round_trip_text: a text through a new encoder, the result through a new *)
(* decoder.                                                                *)

\* the texts of at most n characters over the set C of characters
RECURSIVE Texts(_, _)
Texts(C, n) ==
    IF n = 0 THEN {<<>>}
    ELSE Texts(C, n - 1) \cup {t \o c : t \in Texts(C, n - 1), c \in C}

\* let encoded = encoder.encode(encoding, text.as_bytes())
RoundTripEncode ==
    /\ profile = "round_trip"
    /\ e_calls = 0
    /\ \E encoding \in LegacyEncodings :
        \E text \in Texts(Representable(encoding), MaxChars) \ {<<>>} :
            EncodeCall(encoding, text)

\* let decoded = decoder.decode(encoding, &encoded)
RoundTripDecode ==
    /\ profile = "round_trip"
    /\ e_calls = 1
    /\ d_calls = 0
    /\ DecodeCall(e_encoding, e_ret)

InitRoundTrip ==
    /\ profile = "round_trip"
    /\ DecoderIdle /\ EncoderIdle /\ RegistryIdle /\ ConversionIdle

NextRoundTrip == RoundTripEncode \/ RoundTripDecode

SpecRoundTrip == InitRoundTrip /\ [][NextRoundTrip]_vars

---------------------------------------------------------------------------
(* Arbitrary calls: any encoding and any bytes, the empty input included,  *)
(* on an instance that an earlier arbitrary call has left in any state.    *)

\* 'A', ESC, a lead byte of the encoding, and FF, which no encoding accepts
ArbitraryOutputBytes(enc) == (SwitchBytes(enc) \ {155}) \cup {27, 255}

\* 'A', ESC, and the first and a continuation byte of a three-byte character
ArbitraryInputBytes == {65, 27, 228, 189}

\* the byte strings over S of at most n bytes, the empty one included
StringsOrEmpty(S, n) == {<<>>} \cup Strings(S, n)

\* the call that leaves the decoder in some state
DecodePrepare ==
    /\ profile = "arbitrary_output"
    /\ d_calls = 0
    /\ \E encoding \in PaneEncoding :
        \E data \in StringsOrEmpty(ArbitraryOutputBytes(encoding), MaxTotalInput) :
            DecodeCall(encoding, data)

\* any decode call on that decoder
DecodeArbitrary ==
    /\ profile = "arbitrary_output"
    /\ d_calls = 1
    /\ \E encoding \in PaneEncoding :
        \E data \in StringsOrEmpty(ArbitraryOutputBytes(encoding), MaxTotalInput) :
            DecodeCall(encoding, data)

\* the call that leaves the encoder in some state
EncodePrepare ==
    /\ profile = "arbitrary_input"
    /\ e_calls = 0
    /\ \E encoding \in PaneEncoding :
        \E data \in StringsOrEmpty(ArbitraryInputBytes, MaxTotalInput) :
            EncodeCall(encoding, data)

\* any encode call on that encoder
EncodeArbitrary ==
    /\ profile = "arbitrary_input"
    /\ e_calls = 1
    /\ \E encoding \in PaneEncoding :
        \E data \in StringsOrEmpty(ArbitraryInputBytes, MaxTotalInput) :
            EncodeCall(encoding, data)

InitTotal ==
    /\ profile \in {"arbitrary_output", "arbitrary_input"}
    /\ DecoderIdle /\ EncoderIdle /\ RegistryIdle /\ ConversionIdle

NextTotal ==
    \/ DecodePrepare
    \/ DecodeArbitrary
    \/ EncodePrepare
    \/ EncodeArbitrary

SpecTotal == InitTotal /\ [][NextTotal]_vars

---------------------------------------------------------------------------
(* Printable ASCII through a new encoder and a new decoder.                *)

\* space, '1', 'A', '\' and '~'
PrintableAscii == {32, 49, 65, 92, 126}

\* encoder.encode(enc, ascii) on a new encoder
EncodeAscii ==
    /\ profile = "ascii"
    /\ e_calls = 0
    /\ \E encoding \in PaneEncoding :
        \E ascii \in Strings(PrintableAscii, MaxAsciiInput) :
            EncodeCall(encoding, ascii)

\* decoder.decode(enc, ascii) on a new decoder
DecodeAscii ==
    /\ profile = "ascii"
    /\ e_calls = 1
    /\ d_calls = 0
    /\ DecodeCall(e_encoding, e_data)

InitAscii ==
    /\ profile = "ascii"
    /\ DecoderIdle /\ EncoderIdle /\ RegistryIdle /\ ConversionIdle

NextAscii == EncodeAscii \/ DecodeAscii

SpecAscii == InitAscii /\ [][NextAscii]_vars

---------------------------------------------------------------------------
(* The encoding menu: selections recorded and the list asked for.          *)

\* set_last_selected that stores only into an empty registry
SetLastSelected_first_write_wins ==
    /\ profile = "registry"
    /\ Len(r_recorded) < MaxSelections
    /\ \E encoding \in PaneEncoding :
        /\ LAST_SELECTED_ENCODING' =
                IF LAST_SELECTED_ENCODING = 0
                THEN set_last_selected(encoding)
                ELSE LAST_SELECTED_ENCODING
        /\ r_recorded' = Append(r_recorded, encoding)
    /\ UNCHANGED <<profile, dvars, evars, svars, r_called, r_seen, r_ret,
                   r_pc, r_last, r_returned>>

\* set_last_selected that does not store Utf8
SetLastSelected_identity_not_stored ==
    /\ profile = "registry"
    /\ Len(r_recorded) < MaxSelections
    /\ \E encoding \in PaneEncoding :
        /\ LAST_SELECTED_ENCODING' =
                IF encoding = "Utf8"
                THEN LAST_SELECTED_ENCODING
                ELSE set_last_selected(encoding)
        /\ r_recorded' = Append(r_recorded, encoding)
    /\ UNCHANGED <<profile, dvars, evars, svars, r_called, r_seen, r_ret,
                   r_pc, r_last, r_returned>>

\* PaneEncoding::set_last_selected(encoding)
SetLastSelected ==
    /\ profile = "registry"
    /\ Len(r_recorded) < MaxSelections
    /\ \E encoding \in PaneEncoding :
        /\ LAST_SELECTED_ENCODING' = set_last_selected(encoding)
        /\ r_recorded' = Append(r_recorded, encoding)
    /\ UNCHANGED <<profile, dvars, evars, svars, r_called, r_seen, r_ret,
                   r_pc, r_last, r_returned>>

\* PaneEncoding::ordered_list()
OrderedList ==
    /\ profile = "registry"
    /\ r_last' = LAST_SELECTED_ENCODING
    /\ r_ret' = ordered_list(LAST_SELECTED_ENCODING)
    /\ r_called' = TRUE
    /\ r_seen' = r_recorded
    /\ r_returned' = r_recorded
    /\ UNCHANGED <<profile, dvars, evars, svars,
                   LAST_SELECTED_ENCODING, r_recorded,
                   r_pc>>

InitRegistry ==
    /\ profile = "registry"
    /\ DecoderIdle /\ EncoderIdle /\ RegistryIdle /\ ConversionIdle

NextRegistry == SetLastSelected \/ OrderedList

SpecRegistry == InitRegistry /\ [][NextRegistry]_vars

---------------------------------------------------------------------------
(* The registry with two threads: one calls set_last_selected, the other   *)
(* ordered_list.  The store and the load are atomic operations on one      *)
(* location, so they are the steps that interleave; what ordered_list does *)
(* after its load works on the local `last` only.                          *)

\* LAST_SELECTED_ENCODING.store(encoding as u8, Ordering::Relaxed)
StoreSelection ==
    /\ profile = "threads"
    /\ Len(r_recorded) < MaxSelections
    /\ \E encoding \in PaneEncoding :
        /\ LAST_SELECTED_ENCODING' = set_last_selected(encoding)
        /\ r_recorded' = Append(r_recorded, encoding)
    /\ UNCHANGED <<profile, dvars, evars, svars, r_called, r_seen, r_ret,
                   r_pc, r_last, r_returned>>

\* let last = LAST_SELECTED_ENCODING.load(Ordering::Relaxed)
LoadSelection ==
    /\ profile = "threads"
    /\ r_pc = "idle"
    /\ r_pc' = "loaded"
    /\ r_last' = LAST_SELECTED_ENCODING
    /\ r_seen' = r_recorded
    /\ UNCHANGED <<profile, dvars, evars, svars,
                   LAST_SELECTED_ENCODING, r_recorded,
                   r_called, r_ret, r_returned>>

\* the rest of ordered_list, with the registry read again where the list
\* is built
BuildList_registry_read_again ==
    /\ profile = "threads"
    /\ r_pc = "loaded"
    /\ r_pc' = "idle"
    /\ r_ret' = IF from_u8(r_last) # "Utf8"
                THEN <<"Utf8", from_u8(LAST_SELECTED_ENCODING)>>
                        \o SelectSeq(DEFAULT_ORDER,
                              LAMBDA enc : /\ enc # "Utf8"
                                           /\ enc # from_u8(r_last))
                ELSE ordered_list(r_last)
    /\ r_called' = TRUE
    /\ r_returned' = r_recorded
    /\ UNCHANGED <<profile, dvars, evars, svars,
                   LAST_SELECTED_ENCODING, r_recorded,
                   r_seen, r_last>>

\* the rest of ordered_list: the list is built from `last` and returned
BuildList ==
    /\ profile = "threads"
    /\ r_pc = "loaded"
    /\ r_pc' = "idle"
    /\ r_ret' = ordered_list(r_last)
    /\ r_called' = TRUE
    /\ r_returned' = r_recorded
    /\ UNCHANGED <<profile, dvars, evars, svars,
                   LAST_SELECTED_ENCODING, r_recorded,
                   r_seen, r_last>>

InitThreads ==
    /\ profile = "threads"
    /\ DecoderIdle /\ EncoderIdle /\ RegistryIdle /\ ConversionIdle

NextThreads == StoreSelection \/ LoadSelection \/ BuildList

SpecThreads == InitThreads /\ [][NextThreads]_vars

---------------------------------------------------------------------------
(* decode_bytes_to_string on raw bytes of any kind.                        *)

\* 'A'; C4 E3 is U+4F60 under GBK and GB18030; E4 BD A0 is U+4F60 in UTF-8;
\* FF is no part of any character
RawBytes == {65, 160, 189, 196, 227, 228, 255}

\* decode_bytes_to_string(encoding, raw); the function keeps nothing between
\* calls, so one call per behaviour shows all it does
DecodeBytesToString ==
    /\ profile = "bytes_to_string"
    /\ ~s_called
    /\ \E encoding \in {"Utf8"} \cup LegacyEncodings :
        \E raw \in StringsOrEmpty(RawBytes, MaxRaw) :
            /\ s_encoding' = encoding
            /\ s_raw' = raw
            /\ s_text' = decode_bytes_to_string(encoding, raw)
            /\ s_called' = TRUE
    /\ UNCHANGED <<profile, dvars, evars, rvars>>

InitString ==
    /\ profile = "bytes_to_string"
    /\ DecoderIdle /\ EncoderIdle /\ RegistryIdle /\ ConversionIdle

NextString == DecodeBytesToString

SpecString == InitString /\ [][NextString]_vars

---------------------------------------------------------------------------
(* The escape classifier walked a byte at a time: each call hands one byte *)
(* to the loop of decode or of encode.                                     *)

\* BEL, ESC, '?', '@', 'P', '[', '\', ']', DEL, 9B and FF
ClassifierBytes == {7, 27, 63, 64, 80, 91, 92, 93, 127, 155, 255}

ClassifierEncodings == {"Gbk", "ShiftJis"}

\* decoder.decode(encoding, &[byte])
ClassifyOutput ==
    /\ profile = "classify_output"
    /\ d_calls < MaxClassifierCalls
    /\ \E encoding \in (IF d_calls = 0 THEN ClassifierEncodings
                        ELSE {d_encoding}) :
        \E byte \in ClassifierBytes : DecodeCall(encoding, <<byte>>)

\* encoder.encode(encoding, &[byte])
ClassifyInput ==
    /\ profile = "classify_input"
    /\ e_calls < MaxClassifierCalls
    /\ \E encoding \in (IF e_calls = 0 THEN ClassifierEncodings
                        ELSE {e_encoding}) :
        \E byte \in ClassifierBytes : EncodeCall(encoding, <<byte>>)

InitClassifier ==
    /\ profile \in {"classify_output", "classify_input"}
    /\ DecoderIdle /\ EncoderIdle /\ RegistryIdle /\ ConversionIdle

NextClassifier == ClassifyOutput \/ ClassifyInput

SpecClassifier == InitClassifier /\ [][NextClassifier]_vars

---------------------------------------------------------------------------
(* Properties.                                                             *)

Bytes(b) == {b[i] : i \in DOMAIN b}

\* the position at which the codec stops reading b[i..] as whole characters
RECURSIVE CompleteEnd(_, _, _)
CompleteEnd(enc, b, i) ==
    IF i > Len(b) THEN i
    ELSE LET u == DecodeUnit(enc, b, i)
         IN  IF u.kind = "char" THEN CompleteEnd(enc, b, i + u.len) ELSE i

\* b is whole, valid characters of the codec with no ESC among them
ValidText(enc, b) ==
    /\ b # <<>>
    /\ ESC \notin Bytes(b)
    /\ CompleteEnd(enc, b, 1) > Len(b)

\* b is whole, valid characters followed by the first bytes of one more
SplitText(enc, b) ==
    /\ ESC \notin Bytes(b)
    /\ CompleteEnd(enc, b, 1) <= Len(b)
    /\ DecodeUnit(enc, b, CompleteEnd(enc, b, 1)).kind = "incomplete"

\* b[i..] is well-formed UTF-8, each character one the codec can write
RECURSIVE AllRepresentable(_, _, _)
AllRepresentable(enc, b, i) ==
    IF i > Len(b) THEN TRUE
    ELSE LET u == Utf8Unit(b, i)
         IN  /\ u.kind = "char"
             /\ u.out \in Representable(enc)
             /\ AllRepresentable(enc, b, i + u.len)

\* what a new decoder returns for b in one call
DecodeWhole(enc, b) == decode(DefaultInstance, enc, b).out

\* what a new encoder returns for b in one call
EncodeWhole(enc, b) == encode(DefaultInstance, enc, b).out

\* C1: under a legacy encoding, the outputs of the decode calls made so far
\* on a new decoder, concatenated, are what a new decoder returns for the
\* concatenated inputs in one call.
C1_DecoderChunkIndependence ==
    (d_calls > 0 /\ d_encoding \in LegacyEncodings)
        => d_out = DecodeWhole(d_encoding, d_in)

\* C2: under a legacy encoding, the outputs of the encode calls made so far
\* on a new encoder, concatenated, are what a new encoder returns for the
\* concatenated inputs in one call.
C2_EncoderChunkIndependence ==
    (e_calls > 0 /\ e_encoding \in LegacyEncodings)
        => e_out = EncodeWhole(e_encoding, e_in)

\* C2 witness: an input of several chunks, one of them ending inside a
\* character that the last chunk completed.
C2_Witness ==
    /\ e_encoding \in LegacyEncodings
    /\ e_calls >= 2
    /\ e_pre.pending # <<>>
    /\ e_pending = <<>>
    /\ e_state = "Ground"
    /\ \E i \in DOMAIN e_ret : e_ret[i] >= 128

\* C3: a text of representable characters, encoded by a new encoder and
\* then decoded by a new decoder under the same legacy encoding, comes back
\* as the bytes of the text.
C3_RoundTrip ==
    (profile = "round_trip" /\ d_calls = 1) => d_ret = e_data

\* C4: under a legacy encoding, a decode call whose data is one well-formed
\* control sequence (CSI after ESC [ or after 9B, OSC ended by BEL or by
\* ESC \, DCS ended by ESC \), made in Ground state, returns the sequence
\* byte for byte, ends in Ground state with no escape byte held, and leaves
\* the carry-over as it was.
C4_EscapeTransparency ==
    (/\ d_calls > 0
     /\ d_encoding \in LegacyEncodings
     /\ d_pre.state = "Ground"
     /\ d_data \in ControlSequences)
        => /\ d_ret = d_data
           /\ d_state = "Ground"
           /\ d_escape_bytes = <<>>
           /\ d_pending = (IF d_pre.encoding = d_encoding
                           THEN d_pre.pending ELSE <<>>)

\* C4 witness: an OSC string ended by BEL, with a byte above 7F in it, has
\* passed a decoder that holds the first byte of a character.
C4_Witness ==
    /\ d_encoding \in LegacyEncodings
    /\ d_calls = 2
    /\ d_pre.pending # <<>>
    /\ d_data = <<27, 93, 196, 7>>
    /\ d_ret = d_data

\* C5: a decode call and an encode call under Utf8 return their data
\* unchanged, whatever the instance held before the call.
C5_IdentityLaw ==
    /\ (d_calls > 0 /\ d_encoding = "Utf8") => d_ret = d_data
    /\ (e_calls > 0 /\ e_encoding = "Utf8") => e_ret = e_data

\* C5 witness: a decode call under Utf8, with the 8-bit CSI in its data, on
\* a decoder that held a partial character or an open control sequence under
\* a legacy encoding.
C5_Witness ==
    /\ d_encoding = "Utf8"
    /\ d_pre.encoding \in LegacyEncodings
    /\ d_pre.pending # <<>> \/ d_pre.state # "Ground"
    /\ CSI_8BIT \in Bytes(d_data)
    /\ d_ret = d_data

\* C6: a decode or encode call whose encoding differs from the instance's
\* active encoding leaves the instance as the same call leaves a new
\* instance and returns what a new instance returns: nothing held under the
\* old encoding reaches this call's output or, through the instance, a
\* later one.
C6_ResetOnSwitch ==
    /\ (d_calls > 0 /\ d_pre.encoding # d_encoding)
            => /\ DecoderInstance = decode(DefaultInstance, d_encoding, d_data).inst
               /\ d_ret = DecodeWhole(d_encoding, d_data)
    /\ (e_calls > 0 /\ e_pre.encoding # e_encoding)
            => /\ EncoderInstance = encode(DefaultInstance, e_encoding, e_data).inst
               /\ e_ret = EncodeWhole(e_encoding, e_data)

\* C6 witness: an encoder holding the first byte of a character under one
\* legacy encoding was switched to another legacy encoding by a call that
\* returned text.
C6_Witness ==
    /\ e_calls >= 2
    /\ e_pre.encoding \in LegacyEncodings
    /\ e_encoding \in LegacyEncodings \ {e_pre.encoding}
    /\ e_pre.pending # <<>>
    /\ e_ret # <<>>

\* C7: under a legacy encoding, the first decode call on a new decoder, given
\* whole valid characters of the encoding and no control sequence, returns
\* the text the codec assigns to the data and leaves the carry-over empty.
C7_TextDecoded ==
    (/\ d_calls = 1
     /\ d_encoding \in LegacyEncodings
     /\ ValidText(d_encoding, d_data))
        => /\ d_ret = decode_without_replacement(d_encoding, d_data).text
           /\ d_pending = <<>>

\* C8: under a legacy encoding, the first encode call on a new encoder, given
\* well-formed UTF-8 of representable characters and no control sequence,
\* returns the codec's encoding of the data and leaves the carry-over empty.
C8_TextEncoded ==
    (/\ e_calls = 1
     /\ e_encoding \in LegacyEncodings
     /\ e_data # <<>>
     /\ AllRepresentable(e_encoding, e_data, 1))
        => /\ e_ret = EncodeStr(e_encoding, e_data, 1, Len(e_data))
           /\ e_pending = <<>>

\* the bytes fed to the decoder before its last call
DecoderFedBefore == SubSeq(d_in, 1, Len(d_in) - Len(d_data))

\* the bytes fed to the encoder before its last call
EncoderFedBefore == SubSeq(e_in, 1, Len(e_in) - Len(e_data))

\* C9: under a legacy encoding, when the bytes fed so far are whole valid
\* characters, with or without the first bytes of one more at the end, and
\* the last call or the call before it ended inside a character, the decoder
\* has returned the text of the whole characters and nothing else, and holds
\* exactly the bytes of the unfinished one.
C9_SplitCharacterBuffered ==
    (/\ d_calls > 0
     /\ d_encoding \in LegacyEncodings
     /\ ESC \notin Bytes(d_in)
     /\ \/ SplitText(d_encoding, d_in)
        \/ /\ ValidText(d_encoding, d_in)
           /\ SplitText(d_encoding, DecoderFedBefore))
        => /\ d_out = decode_without_replacement(d_encoding,
                        Prefix(d_in, CompleteEnd(d_encoding, d_in, 1) - 1)).text
           /\ d_pending = Suffix(d_in, CompleteEnd(d_encoding, d_in, 1) - 1)

\* b is well-formed UTF-8, with or without the first bytes of one more
\* character at the end, and no ESC
Utf8OrCut(b) ==
    /\ ESC \notin Bytes(b)
    /\ \/ ValidEnd(b, 1) > Len(b)
       \/ Utf8Unit(b, ValidEnd(b, 1)).kind = "incomplete"

\* b ends with the first bytes of a UTF-8 character
Utf8Cut(b) ==
    /\ ValidEnd(b, 1) <= Len(b)
    /\ Utf8Unit(b, ValidEnd(b, 1)).kind = "incomplete"

\* C10: under a legacy encoding, when the bytes fed so far are well-formed
\* UTF-8, with or without the first bytes of one more character at the end,
\* and the last call or the call before it ended inside a character, the
\* encoder has returned the codec's encoding of the whole characters and
\* nothing else, and holds exactly the bytes of the unfinished one.
C10_SplitUtf8Buffered ==
    (/\ e_calls > 0
     /\ e_encoding \in LegacyEncodings
     /\ Utf8OrCut(e_in)
     /\ Utf8Cut(e_in) \/ Utf8Cut(EncoderFedBefore))
        => /\ e_out = EncodeStr(e_encoding, e_in, 1, ValidEnd(e_in, 1) - 1)
           /\ e_pending = Suffix(e_in, ValidEnd(e_in, 1) - 1)

\* the ways to read b as a character, a control sequence and a character
StreamParts(enc, b) ==
    {p \in TableChars(enc) \X ControlSequences \X TableChars(enc) :
        b = p[1] \o p[2] \o p[3]}

\* the text the codec assigns to the bytes c
CodecText(enc, c) == decode_without_replacement(enc, c).text

\* C11: under a legacy encoding, a decode call on a new decoder whose data
\* is a character, then a well-formed control sequence, then a character,
\* returns the text of the first character, the control sequence byte for
\* byte, and the text of the second character, in that order.
C11_MixedStream ==
    (profile = "stream" /\ d_calls = 1)
        => \A p \in StreamParts(d_encoding, d_data) :
              d_ret = CodecText(d_encoding, p[1]) \o p[2]
                        \o CodecText(d_encoding, p[3])

\* the last decode call was given one run of text in Ground state: what
\* decode_text saw as its buffer
TextCallBuffer == d_pre.pending \o d_data

LastCallWasText ==
    /\ d_calls > 0
    /\ d_encoding \in LegacyEncodings
    /\ d_pre.encoding = d_encoding
    /\ d_pre.state = "Ground"
    /\ d_data # <<>>
    /\ \A i \in DOMAIN d_data : ~IsIntroducer(d_data[i])

\* C12: the decoder's carry-over never holds more than
\* MAX_TRAILING_ENCODED_BYTES bytes; a text call whose buffer is longer than
\* that and has no cleanly decodable prefix within the window returns the
\* lossy decoding of the whole buffer and leaves the carry-over empty.
C12_BoundedCarryOver ==
    /\ Len(d_pending) <= MAX_TRAILING_ENCODED_BYTES
    /\ (/\ LastCallWasText
        /\ Len(TextCallBuffer) > MAX_TRAILING_ENCODED_BYTES
        /\ CleanSplits(d_encoding, TextCallBuffer) = {})
            => /\ d_ret = decode_with_replacement(d_encoding, TextCallBuffer)
               /\ d_pending = <<>>

\* C12 witness: four undecodable bytes were held, more arrived, and the
\* call returned five replacement characters and kept nothing.
C12_Witness ==
    /\ LastCallWasText
    /\ Len(d_pre.pending) = MAX_TRAILING_ENCODED_BYTES
    /\ CleanSplits(d_encoding, TextCallBuffer) = {}
    /\ d_pending = <<>>
    /\ Len(d_ret) >= 15

\* C13: under a legacy encoding, whatever the decoder holds in its
\* carry-over after a call is the first bytes of one character that more
\* bytes can complete: no whole character and no byte the codec rejects.
C13_CarryOverIsIncompleteUnit ==
    (d_calls > 0 /\ d_encoding \in LegacyEncodings /\ d_pending # <<>>)
        => DecodeUnit(d_encoding, d_pending, 1).kind = "incomplete"

IsByteString(b) == b \in Seq(0 .. 255)

\* C14: for every encoding, instance state and input (empty, malformed, in
\* any chunks), every slice a decode or encode call takes is in range and
\* the call returns a byte string.
C14_NoFatalErrors ==
    /\ d_calls > 0
        => /\ DecodeInRange(d_pre, d_encoding, d_data)
           /\ IsByteString(d_ret)
    /\ e_calls > 0
        => /\ EncodeInRange(e_pre, e_encoding, e_data)
           /\ IsByteString(e_ret)

\* C14 witness: a decoder holding a byte no encoding accepts was given a
\* text byte and an ESC, and returned.
C14_Witness ==
    /\ d_calls = 2
    /\ d_encoding \in LegacyEncodings
    /\ d_pre.encoding = d_encoding
    /\ 255 \in Bytes(d_pre.pending)
    /\ Len(d_data) = 2
    /\ d_data[1] # ESC
    /\ d_data[2] = ESC
    /\ IsByteString(d_ret)

\* the last encode call was given one run of text in Ground state
EncodeCallWasText ==
    /\ e_calls > 0
    /\ e_encoding \in LegacyEncodings
    /\ e_pre.encoding = e_encoding => e_pre.state = "Ground"
    /\ e_data # <<>>
    /\ \A i \in DOMAIN e_data : ~IsIntroducer(e_data[i])

\* what encode_text saw as its buffer in that call
EncodeCallBuffer ==
    (IF e_pre.encoding = e_encoding THEN e_pre.pending ELSE <<>>) \o e_data

\* b[i..] unit by unit: a character gives its encoding, an invalid unit one
\* '?', and the first bytes of a character cut by the end of b are kept
RECURSIVE UnitByUnit(_, _, _)
UnitByUnit(enc, b, i) ==
    IF i > Len(b) THEN [pending |-> <<>>, emitted |-> <<>>]
    ELSE LET u == Utf8Unit(b, i)
         IN  IF u.kind = "incomplete"
             THEN [pending |-> Suffix(b, i - 1), emitted |-> <<>>]
             ELSE LET rest == UnitByUnit(enc, b, i + u.len)
                  IN  [pending |-> rest.pending,
                       emitted |->
                         (IF u.kind = "char" THEN EncodeChar(enc, u.out)
                          ELSE <<QUESTION_MARK>>) \o rest.emitted]

\* C15: under a legacy encoding, an encode call on Ground-state text returns
\* the encoding of each character and exactly one '?' in place of each
\* invalid unit, in input order, and keeps none of the invalid bytes: only
\* the first bytes of a character cut by the end of the text stay buffered.
C15_InvalidUnitReplaced ==
    EncodeCallWasText
        => /\ e_ret = UnitByUnit(e_encoding, EncodeCallBuffer, 1).emitted
           /\ e_pending = UnitByUnit(e_encoding, EncodeCallBuffer, 1).pending

\* C15 witness: a text call with an invalid unit of two bytes and then two
\* ASCII bytes returned one '?' and the two ASCII bytes, and kept nothing.
C15_Witness ==
    /\ EncodeCallWasText
    /\ Len(EncodeCallBuffer) = 4
    /\ Utf8Unit(EncodeCallBuffer, 1).kind = "error"
    /\ Utf8Unit(EncodeCallBuffer, 1).len = 2
    /\ e_ret = <<QUESTION_MARK, 65, 65>>
    /\ e_pending = <<>>

\* the ways to read b as a character, a control sequence and a character,
\* in UTF-8
PasteParts(enc, b) ==
    {p \in Representable(enc) \X ControlSequences \X Representable(enc) :
        b = p[1] \o p[2] \o p[3]}

\* C16: under a legacy encoding, an encode call on a new encoder whose data
\* is a character, a well-formed control sequence and a character returns
\* the encoding of the first character, the control sequence unchanged and
\* in one piece, and the encoding of the second character.
C16_EncoderEscapePassThrough ==
    (profile = "paste_stream" /\ e_calls = 1)
        => \A p \in PasteParts(e_encoding, e_data) :
              e_ret = EncodeChar(e_encoding, p[1]) \o p[2]
                        \o EncodeChar(e_encoding, p[3])

\* C17: for each of the six encodings, a new encoder and a new decoder
\* given printable ASCII return it unchanged and hold nothing afterwards.
C17_AsciiPassThrough ==
    /\ (profile = "ascii" /\ e_calls = 1)
            => /\ e_ret = e_data
               /\ e_pending = <<>> /\ e_escape_bytes = <<>>
               /\ e_state = "Ground"
    /\ (profile = "ascii" /\ d_calls = 1)
            => /\ d_ret = d_data
               /\ d_pending = <<>> /\ d_escape_bytes = <<>>
               /\ d_state = "Ground"

\* C17 witness: three printable bytes, a backslash among them, have passed
\* a Shift-JIS encoder and a Shift-JIS decoder.
C17_Witness ==
    /\ profile = "ascii"
    /\ e_calls = 1 /\ d_calls = 1
    /\ d_encoding = "ShiftJis"
    /\ Len(d_data) = MaxAsciiInput
    /\ 92 \in Bytes(d_data)
    /\ d_ret = d_data /\ e_ret = d_data

\* the encoding last given to set_last_selected before the last
\* ordered_list call
LastRecorded == r_seen[Len(r_seen)]

\* the five legacy encodings in their canonical order, X left out
CanonicalWithout(X) ==
    SelectSeq(<<"Gbk", "Gb18030", "Big5", "EucKr", "ShiftJis">>,
              LAMBDA enc : enc # X)

\* C18: when the last recorded selection is a legacy encoding X,
\* ordered_list returns Utf8, then X, then the other legacy encodings in
\* canonical order; after Gbk it is Utf8, Gbk, Gb18030, Big5, EucKr, ShiftJis.
C18_PromotedSelection ==
    (r_called /\ r_seen # <<>> /\ LastRecorded # "Utf8")
        => /\ r_ret = <<"Utf8", LastRecorded>> \o CanonicalWithout(LastRecorded)
           /\ LastRecorded = "Gbk"
                => r_ret = <<"Utf8", "Gbk", "Gb18030", "Big5", "EucKr",
                             "ShiftJis">>

\* C18 witness: ShiftJis, the last of the canonical order, was recorded
\* after another selection and the list has it second.
C18_Witness ==
    /\ r_called
    /\ Len(r_seen) >= 2
    /\ LastRecorded = "ShiftJis"
    /\ r_ret = <<"Utf8", "ShiftJis", "Gbk", "Gb18030", "Big5", "EucKr">>

\* each supported encoding exactly once, Utf8 first
IsMenu(list) ==
    /\ Len(list) = Cardinality(PaneEncoding)
    /\ \A enc \in PaneEncoding :
            Cardinality({i \in DOMAIN list : list[i] = enc}) = 1
    /\ list[1] = "Utf8"

\* C19: after any sequence of set_last_selected calls, and for every byte
\* the registry could hold, ordered_list returns six entries, each encoding
\* exactly once, with Utf8 at position 0.
C19_Permutation ==
    /\ r_called => IsMenu(r_ret)
    /\ IsMenu(ordered_list(LAST_SELECTED_ENCODING))
    /\ \A last \in 0 .. 255 : IsMenu(ordered_list(last))

\* C19 witness: after the most selections a behaviour makes, the last one
\* EucKr, the list is a menu with EucKr second.
C19_Witness ==
    /\ r_called
    /\ Len(r_seen) = MaxSelections
    /\ LastRecorded = "EucKr"
    /\ IsMenu(r_ret)
    /\ r_ret[2] = "EucKr"

\* C20: when nothing was recorded, or Utf8 was recorded last, ordered_list
\* returns Utf8, Gbk, Gb18030, Big5, EucKr, ShiftJis, which is DEFAULT_ORDER.
C20_CanonicalOrder ==
    (r_called /\ (r_seen = <<>> \/ LastRecorded = "Utf8"))
        => /\ r_ret = <<"Utf8", "Gbk", "Gb18030", "Big5", "EucKr", "ShiftJis">>
           /\ r_ret = DEFAULT_ORDER

\* C20 witness: Utf8 was recorded after a legacy encoding and the list is
\* the canonical one again.
C20_Witness ==
    /\ r_called
    /\ Len(r_seen) >= 2
    /\ r_seen[1] # "Utf8"
    /\ LastRecorded = "Utf8"
    /\ r_ret = DEFAULT_ORDER

\* C21: set_last_selected always stores, and the last store wins: the
\* registry holds the last argument, and the list ordered_list returns is
\* the one a single call with that argument gives, whatever came before.
C21_LastWriteWins ==
    /\ r_recorded # <<>>
        => LAST_SELECTED_ENCODING = as_u8(r_recorded[Len(r_recorded)])
    /\ (r_called /\ r_seen # <<>>)
        => /\ r_ret = ordered_list(set_last_selected(LastRecorded))
           /\ LastRecorded # "Utf8" => r_ret[2] = LastRecorded
           /\ LastRecorded = "Utf8" => r_ret = DEFAULT_ORDER

\* C21 witness: Gbk was recorded, then Big5, and the list has Big5 second.
C21_Witness ==
    /\ r_called
    /\ Len(r_seen) >= 2
    /\ r_seen[1] = "Gbk"
    /\ LastRecorded = "Big5"
    /\ r_ret[2] = "Big5"

\* positions of the legacy encodings among the recorded selections
LegacyPositions == {i \in DOMAIN r_seen : r_seen[i] # "Utf8"}

\* the last legacy encoding recorded before the last ordered_list call
LastLegacy == r_seen[CHOOSE i \in LegacyPositions :
                        \A j \in LegacyPositions : j <= i]

\* C22 as stated: the registry keeps the last non-identity encoding that
\* was selected; ordered_list promotes it, and returns the canonical order
\* only when no non-identity encoding was ever selected.
C22_LastNonIdentityKept ==
    r_called
        => IF LegacyPositions # {}
           THEN r_ret = <<"Utf8", LastLegacy>> \o CanonicalWithout(LastLegacy)
           ELSE r_ret = <<"Utf8", "Gbk", "Gb18030", "Big5", "EucKr",
                          "ShiftJis">>

\* C22 amended: the registry keeps the last selection, identity or not: a
\* legacy encoding selected last is second in the list, and after Utf8 was
\* selected last no earlier selection is promoted.
C22_LastSelectionKept ==
    (r_called /\ r_seen # <<>>)
        => /\ LastRecorded # "Utf8" => r_ret[2] = LastRecorded
           /\ LastRecorded = "Utf8"
                => /\ r_ret[2] = "Gbk"
                   /\ r_ret = <<"Utf8">> \o CanonicalWithout("Utf8")

\* C22 witness: Big5 was selected, then Utf8, and Big5 is not promoted.
C22_Witness ==
    /\ r_called
    /\ Len(r_seen) >= 2
    /\ r_seen[1] = "Big5"
    /\ LastRecorded = "Utf8"
    /\ r_ret[2] = "Gbk"
    /\ r_ret[4] = "Big5"

\* no call was made yet: the state in which the rows of advance_escape are
\* compared, byte by byte, with the rows of the claims
BeforeCalls == d_calls = 0 /\ e_calls = 0

\* the last decode call gave one byte to a decoder whose classifier was in
\* state S
DecoderStepFrom(S) ==
    /\ profile = "classify_output"
    /\ d_calls > 0
    /\ d_pre.state = S

\* the last encode call gave one byte to an encoder whose classifier was in
\* state S
EncoderStepFrom(S) ==
    /\ profile = "classify_input"
    /\ e_calls > 0
    /\ e_pre.state = S

\* inside a control sequence the byte took the decoder to state T: it joined
\* the accumulated bytes, which are returned whole once T is Ground
DecoderStepTo(T) ==
    /\ d_state = T
    /\ d_pending = d_pre.pending
    /\ IF T = "Ground"
       THEN d_escape_bytes = <<>> /\ d_ret = d_pre.escape_bytes \o d_data
       ELSE d_escape_bytes = d_pre.escape_bytes \o d_data /\ d_ret = <<>>

EncoderStepTo(T) ==
    /\ e_state = T
    /\ e_pending = e_pre.pending
    /\ IF T = "Ground"
       THEN e_escape_bytes = <<>> /\ e_ret = e_pre.escape_bytes \o e_data
       ELSE e_escape_bytes = e_pre.escape_bytes \o e_data /\ e_ret = <<>>

\* the Escape-started row as the claim gives it
EscRow(byte) ==
    CASE byte = 91 -> "Csi"
      [] byte = 93 -> "Osc"
      [] byte = 80 -> "Dcs"
      [] byte \in (64 .. 126) \ {91, 93, 80} -> "Ground"
      [] OTHER -> "Esc"

\* C23: in state Esc the classifier goes to Csi on '[', Osc on ']', Dcs on
\* 'P', Ground on any other byte of 0x40..0x7E and stays in Esc on the rest:
\* bytes below 0x40 (a second ESC too) and from 0x7F up join the escape run.
C23_EscRow ==
    /\ BeforeCalls
        => /\ \A byte \in 0 .. 255 : advance_escape("Esc", byte) = EscRow(byte)
           /\ \A byte \in (0 .. 63) \cup (127 .. 255) :
                    advance_escape("Esc", byte) = "Esc"
    /\ DecoderStepFrom("Esc") => DecoderStepTo(EscRow(d_data[1]))
    /\ EncoderStepFrom("Esc") => EncoderStepTo(EscRow(e_data[1]))

\* C23 witness: after ESC and '?', the byte FF stays in the escape run of
\* the decoder and nothing is returned.
C23_Witness ==
    /\ DecoderStepFrom("Esc")
    /\ d_pre.escape_bytes = <<27, 63>>
    /\ d_data = <<255>>
    /\ d_state = "Esc"
    /\ d_escape_bytes = <<27, 63, 255>>
    /\ d_ret = <<>>

\* the Ground row as the claim gives it
GroundRow(byte) ==
    IF byte = 27 THEN "Esc" ELSE IF byte = 155 THEN "Csi" ELSE "Ground"

\* C24: in Ground the byte 0x1B leads to Esc, 0x9B to Csi and every other
\* byte leaves the state Ground; in the decoder and in the encoder Ground is
\* left in no other way, and the introducer is the first accumulated byte.
C24_GroundRow ==
    /\ BeforeCalls
        => \A byte \in 0 .. 255 :
            /\ IsIntroducer(byte) <=> GroundRow(byte) # "Ground"
            /\ IsIntroducer(byte)
                => /\ begin_escape(byte).state = GroundRow(byte)
                   /\ begin_escape(byte).escape_bytes = <<byte>>
            /\ ~IsIntroducer(byte)
                => advance_escape("Ground", byte) = "Ground"
    /\ DecoderStepFrom("Ground")
        => /\ d_state = GroundRow(d_data[1])
           /\ d_escape_bytes = IF d_state = "Ground" THEN <<>> ELSE d_data
           /\ d_state # "Ground" => d_ret = <<>> /\ d_pending = d_pre.pending
    /\ EncoderStepFrom("Ground")
        => /\ e_state = GroundRow(e_data[1])
           /\ e_escape_bytes = IF e_state = "Ground" THEN <<>> ELSE e_data
           /\ e_state # "Ground" => e_ret = <<>> /\ e_pending = e_pre.pending

\* C24 witness: a decoder in Ground that holds a byte back is given 9B and
\* enters Csi with 9B as the only accumulated byte.
C24_Witness ==
    /\ DecoderStepFrom("Ground")
    /\ d_pre.pending = <<255>>
    /\ d_data = <<155>>
    /\ d_state = "Csi"
    /\ d_escape_bytes = <<155>>

\* the CSI row as the claim gives it
CsiRow(byte) == IF byte \in 64 .. 126 THEN "Ground" ELSE "Csi"

\* C25: in state Csi a byte of 0x40..0x7E ends the sequence and every other
\* byte (parameters, intermediates, controls with ESC among them, 0x7F and
\* above) keeps it open.
C25_CsiRow ==
    /\ BeforeCalls
        => /\ \A byte \in 0 .. 255 : advance_escape("Csi", byte) = CsiRow(byte)
           /\ \A byte \in (0 .. 63) \cup (127 .. 255) :
                    advance_escape("Csi", byte) = "Csi"
    /\ DecoderStepFrom("Csi") => DecoderStepTo(CsiRow(d_data[1]))
    /\ EncoderStepFrom("Csi") => EncoderStepTo(CsiRow(e_data[1]))

\* C25 witness: an encoder inside a CSI sequence opened by 9B is given ESC
\* and stays in Csi, the ESC accumulated.
C25_Witness ==
    /\ EncoderStepFrom("Csi")
    /\ e_data = <<27>>
    /\ e_state = "Csi"
    /\ e_escape_bytes = <<155, 27>>
    /\ e_ret = <<>>

\* the two OSC rows as the claim gives them
OscRow(byte) ==
    IF byte = 7 THEN "Ground" ELSE IF byte = 27 THEN "OscEsc" ELSE "Osc"

OscEscRow(byte) == IF byte = 92 THEN "Ground" ELSE "Osc"

\* C26: in state Osc BEL leads to Ground, ESC to OscEsc and any other byte
\* stays in Osc; in OscEsc a backslash leads to Ground and any other byte,
\* a second ESC too, back to Osc: an OSC ends at BEL or at ESC backslash only.
C26_OscRows ==
    /\ BeforeCalls
        => /\ \A byte \in 0 .. 255 :
                /\ advance_escape("Osc", byte) = OscRow(byte)
                /\ advance_escape("OscEsc", byte) = OscEscRow(byte)
           /\ advance_escape("OscEsc", 27) = "Osc"
    /\ DecoderStepFrom("Osc") => DecoderStepTo(OscRow(d_data[1]))
    /\ DecoderStepFrom("OscEsc") => DecoderStepTo(OscEscRow(d_data[1]))
    /\ EncoderStepFrom("Osc") => EncoderStepTo(OscRow(e_data[1]))
    /\ EncoderStepFrom("OscEsc") => EncoderStepTo(OscEscRow(e_data[1]))
    /\ (profile = "classify_output" /\ d_calls > 0 /\ d_state = "Ground"
            /\ d_pre.state \in {"Osc", "OscEsc"})
        => \/ d_pre.state = "Osc" /\ d_data = <<7>>
           \/ d_pre.state = "OscEsc" /\ d_data = <<92>>

\* C26 witness: after ESC ] ESC a decoder is given a second ESC; it is back
\* in Osc with all four bytes accumulated.
C26_Witness ==
    /\ DecoderStepFrom("OscEsc")
    /\ d_data = <<27>>
    /\ d_state = "Osc"
    /\ d_escape_bytes = <<27, 93, 27, 27>>
    /\ d_ret = <<>>

\* the two DCS rows as the claim gives them
DcsRow(byte) == IF byte = 27 THEN "DcsEsc" ELSE "Dcs"

DcsEscRow(byte) == IF byte = 92 THEN "Ground" ELSE "Dcs"

\* C27: in state Dcs ESC leads to DcsEsc and any other byte, BEL too, stays
\* in Dcs; in DcsEsc a backslash leads to Ground and any other byte back to
\* Dcs: a DCS ends at ESC backslash only.
C27_DcsRows ==
    /\ BeforeCalls
        => /\ \A byte \in 0 .. 255 :
                /\ advance_escape("Dcs", byte) = DcsRow(byte)
                /\ advance_escape("DcsEsc", byte) = DcsEscRow(byte)
           /\ advance_escape("Dcs", 7) = "Dcs"
    /\ DecoderStepFrom("Dcs") => DecoderStepTo(DcsRow(d_data[1]))
    /\ DecoderStepFrom("DcsEsc") => DecoderStepTo(DcsEscRow(d_data[1]))
    /\ EncoderStepFrom("Dcs") => EncoderStepTo(DcsRow(e_data[1]))
    /\ EncoderStepFrom("DcsEsc") => EncoderStepTo(DcsEscRow(e_data[1]))
    /\ (profile = "classify_input" /\ e_calls > 0 /\ e_state = "Ground"
            /\ e_pre.state \in {"Dcs", "DcsEsc"})
        => e_pre.state = "DcsEsc" /\ e_data = <<92>>

\* C27 witness: an encoder that was given ESC P BEL is still in Dcs, the
\* BEL accumulated with the rest.
C27_Witness ==
    /\ EncoderStepFrom("Dcs")
    /\ e_data = <<7>>
    /\ e_state = "Dcs"
    /\ e_escape_bytes = <<27, 80, 7>>
    /\ e_ret = <<>>

\* the first position from i on at which a control sequence in the given
\* state ends, 0 when data does not hold its end
RECURSIVE FirstGround(_, _, _)
FirstGround(state, data, i) ==
    IF i > Len(data) THEN 0
    ELSE IF advance_escape(state, data[i]) = "Ground" THEN i
    ELSE FirstGround(advance_escape(state, data[i]), data, i + 1)

\* the data of the last decode call continues a control sequence, or opens
\* one with its first byte
ContinuesSequence ==
    /\ d_calls > 0
    /\ d_encoding \in LegacyEncodings
    /\ d_data # <<>>
    /\ \/ d_pre.encoding = d_encoding /\ d_pre.state # "Ground"
       \/ /\ d_pre.encoding = d_encoding => d_pre.state = "Ground"
          /\ IsIntroducer(d_data[1])

\* the bytes of that sequence the decoder held before the call
HeldSequence ==
    IF d_pre.encoding = d_encoding THEN d_pre.escape_bytes ELSE <<>>

\* where that sequence ends in the data of the call, 0 if it does not
SequenceEnd ==
    IF d_pre.encoding = d_encoding /\ d_pre.state # "Ground"
    THEN FirstGround(d_pre.state, d_data, 1)
    ELSE FirstGround(GroundRow(d_data[1]), d_data, 2)

\* C28: the bytes of a control sequence are kept as they are, bytes of 0x80
\* and above too; a call that does not hold the end of the sequence returns
\* nothing of it and leaves all of it buffered, over any number of calls;
\* the call that holds the end returns the whole sequence, from its
\* introducer, in one piece and unchanged.
C28_SequenceEmittedWhole ==
    /\ (d_encoding \in LegacyEncodings /\ d_state # "Ground")
        => /\ d_escape_bytes # <<>>
           /\ IsIntroducer(d_escape_bytes[1])
           /\ Len(d_escape_bytes) <= Len(d_in)
           /\ d_escape_bytes = SubSeq(d_in, Len(d_in) - Len(d_escape_bytes) + 1,
                                      Len(d_in))
    /\ (d_encoding \in LegacyEncodings /\ d_state = "Ground")
        => d_escape_bytes = <<>>
    /\ (ContinuesSequence /\ SequenceEnd = 0)
        => /\ d_ret = <<>>
           /\ d_state # "Ground"
           /\ d_escape_bytes = HeldSequence \o d_data
           /\ d_pending = (IF d_pre.encoding = d_encoding
                           THEN d_pre.pending ELSE <<>>)
    /\ (ContinuesSequence /\ SequenceEnd > 0)
        => /\ Len(d_ret) >= Len(HeldSequence) + SequenceEnd
           /\ SubSeq(d_ret, 1, Len(HeldSequence) + SequenceEnd)
                = HeldSequence \o SubSeq(d_data, 1, SequenceEnd)

\* C28 witness: 9B, then C4, then 'A' came in three calls; the first two
\* returned nothing and the third returns the three bytes.
C28_Witness ==
    /\ d_encoding = "Gbk"
    /\ d_calls = 3
    /\ d_in = <<155, 196, 65>>
    /\ d_out = <<155, 196, 65>>
    /\ d_pre.escape_bytes = <<155, 196>>
    /\ d_ret = <<155, 196, 65>>

\* the truncations by 0 to 3 trailing bytes that leave a non-empty prefix
\* of b which decodes without error
CleanTruncations(enc, b) ==
    {t \in 0 .. 3 :
        /\ t < Len(b)
        /\ decode_without_replacement(enc, Prefix(b, Len(b) - t)).some}

SetMin(S) == CHOOSE x \in S : \A y \in S : x <= y

\* C29: decode_text tries the whole of carry-over plus text, then the buffer
\* without its last 1, 2, 3 bytes; it emits the decoding of the longest
\* prefix that decodes cleanly and carries the rest, at most 3 bytes, over
\* to the next call.
C29_LongestPrefix ==
    LastCallWasText
        => /\ CleanTruncations(d_encoding, TextCallBuffer) # {}
                => LET t == SetMin(CleanTruncations(d_encoding, TextCallBuffer))
                       split == Len(TextCallBuffer) - t
                   IN  /\ d_ret = decode_without_replacement(d_encoding,
                                    Prefix(TextCallBuffer, split)).text
                       /\ d_pending = Suffix(TextCallBuffer, split)
           /\ (d_ret # <<>> /\ d_pending # <<>>) => Len(d_pending) <= 3

\* C30: a text call whose carry-over and data are together longer than
\* MAX_TRAILING_ENCODED_BYTES returns output, decoded or lossy, for a prefix
\* of them that holds the oldest byte and all but the last four at most; so
\* in a stream of text no byte is held once four more have come after it.
C30_BoundedResponse ==
    /\ (LastCallWasText /\ Len(TextCallBuffer) > MAX_TRAILING_ENCODED_BYTES)
        => /\ d_ret # <<>>
           /\ Len(d_pending) <= 4
           /\ Len(d_pending) < Len(TextCallBuffer)
           /\ d_pending = Suffix(TextCallBuffer,
                                 Len(TextCallBuffer) - Len(d_pending))
    /\ (profile = "malformed" /\ d_calls > 0)
        => /\ Len(d_pending) <= Len(d_in)
           /\ d_pending = Suffix(d_in, Len(d_in) - Len(d_pending))
           /\ \A i \in 1 .. Len(d_in) - 4 : i <= Len(d_in) - Len(d_pending)

\* C30 witness: a decoder holding one byte was given five more; it returned
\* the character at the head of the six and holds the rest.
C30_Witness ==
    /\ LastCallWasText
    /\ Len(d_pre.pending) = 1
    /\ Len(d_data) = 5
    /\ CleanSplits(d_encoding, TextCallBuffer) # {}
    /\ d_ret # <<>>
    /\ d_pending # <<>>
    /\ Len(d_pending) < Len(TextCallBuffer)

\* the text that follows the control sequence in the data of the last call
TextAfterSequence == Suffix(d_data, SequenceEnd)

\* the control sequence that ended in the last call, from its introducer
EndedSequence == HeldSequence \o Prefix(d_data, SequenceEnd)

\* C31: the decoder's output follows its input: what comes of text before a
\* control sequence is returned before the bytes of the sequence, and bytes
\* held in the carry-over are not joined with text that follows a control
\* sequence: after the sequence comes the conversion of that text alone.
C31_OutputOrder ==
    (/\ ContinuesSequence
     /\ SequenceEnd > 0
     /\ TextAfterSequence # <<>>
     /\ \A i \in DOMAIN TextAfterSequence :
            ~IsIntroducer(TextAfterSequence[i]))
        => LET r == decode_text(d_encoding, TextAfterSequence, <<>>)
               tail == EndedSequence \o r.emitted
           IN  /\ d_pending = r.pending
               /\ Len(d_ret) >= Len(tail)
               /\ Suffix(d_ret, Len(d_ret) - Len(tail)) = tail

\* the menu that promotes X
MenuOf(X) ==
    IF X = "Utf8"
    THEN <<"Utf8", "Gbk", "Gb18030", "Big5", "EucKr", "ShiftJis">>
    ELSE <<"Utf8", X>> \o CanonicalWithout(X)

\* the encodings the registry has held so far, the initial Utf8 among them
HeldSoFar == {"Utf8"} \cup {r_recorded[i] : i \in DOMAIN r_recorded}

\* C32: with set_last_selected in one thread and ordered_list in another,
\* however their steps interleave, every list returned has each encoding
\* once and promotes an encoding that was stored (or the initial Utf8): the
\* one the single load saw; a call that loads after the last store returns
\* the menu of that store.
C32_RegistryUnderConcurrency ==
    (profile = "threads" /\ r_called /\ r_pc = "idle")
        => /\ IsMenu(r_ret)
           /\ \E X \in HeldSoFar : r_ret = MenuOf(X)
           /\ r_ret = MenuOf(IF r_seen = <<>> THEN "Utf8" ELSE LastRecorded)
           /\ r_seen = r_recorded
                => r_ret = MenuOf(IF r_recorded = <<>> THEN "Utf8"
                                  ELSE r_recorded[Len(r_recorded)])

\* C32 witness: Big5 was stored and loaded; EucKr was stored before the
\* list was built, and the list returned promotes Big5.
C32_Witness ==
    /\ profile = "threads"
    /\ r_called /\ r_pc = "idle"
    /\ r_seen = <<"Big5">>
    /\ r_returned = <<"Big5", "EucKr">>
    /\ r_ret = <<"Utf8", "Big5", "Gbk", "Gb18030", "EucKr", "ShiftJis">>

\* the run of the while loop of encode_text in the last encode call
LastEncodeTextRun ==
    EncodeTextCursors(EncodeCallBuffer, 1, Len(EncodeCallBuffer))

RECURSIVE StateAfter(_, _, _)
StateAfter(state, bytes, i) ==
    IF i > Len(bytes) \/ state = "Ground" THEN state
    ELSE StateAfter(advance_escape(state, bytes[i]), bytes, i + 1)

\* the scan state and the escape buffer of an instance agree, fed being the
\* bytes the instance was given
StateAndBufferAgree(state, escape_bytes, fed) ==
    /\ (state = "Ground") <=> (escape_bytes = <<>>)
    /\ escape_bytes # <<>>
        => /\ IsIntroducer(escape_bytes[1])
           /\ Len(escape_bytes) <= Len(fed)
           /\ escape_bytes = Suffix(fed, Len(fed) - Len(escape_bytes))
           /\ state = StateAfter(begin_escape(escape_bytes[1]).state,
                                 escape_bytes, 2)

\* C35: between calls the escape buffer of a decoder and of an encoder is
\* empty exactly when the scan state is Ground; otherwise it holds the bytes
\* of the open control sequence, the last bytes given, from the introducer
\* 1B or 9B on, and the scan state is the one those bytes lead to.
C35_StateAndBufferAgree ==
    /\ StateAndBufferAgree(d_state, d_escape_bytes, d_in)
    /\ StateAndBufferAgree(e_state, e_escape_bytes, e_in)

\* C35 witness: ESC, ']' and '?' were given to an encoder in three calls; it
\* is in Osc and holds the three bytes.
C35_Witness ==
    /\ e_calls = 3
    /\ e_state = "Osc"
    /\ e_escape_bytes = <<ESC, 93, 63>>
    /\ e_out = <<>>

\* an instance under the identity encoding holds nothing
HoldsNoState(inst) ==
    inst.encoding = "Utf8"
        => /\ inst.state = "Ground"
           /\ inst.escape_bytes = <<>>
           /\ inst.pending = <<>>

\* C36: an instance whose active encoding is Utf8 is in Ground with its
\* escape buffer and its carry-over empty, when new and after every call
\* under Utf8; a call under Utf8 on an instance that is under Utf8 leaves
\* the instance as it was.
C36_IdentityHoldsNoState ==
    /\ HoldsNoState(DecoderInstance)
    /\ HoldsNoState(EncoderInstance)
    /\ (d_calls > 0 /\ d_pre.encoding = "Utf8" /\ d_encoding = "Utf8")
        => DecoderInstance = d_pre
    /\ (e_calls > 0 /\ e_pre.encoding = "Utf8" /\ e_encoding = "Utf8")
        => EncoderInstance = e_pre

\* C36 witness: an encoder with an open control sequence under a legacy
\* encoding was called under Utf8 and holds nothing.
C36_Witness ==
    /\ e_calls >= 2
    /\ e_encoding = "Utf8"
    /\ e_pre.encoding \in LegacyEncodings
    /\ e_pre.state # "Ground"
    /\ e_pre.escape_bytes # <<>>
    /\ EncoderInstance = DefaultInstance

\* continuation bytes at the ends of the ranges a second byte may be held to
ContinuationSamples == {128, 143, 144, 159, 160, 191}

\* p is the start of one UTF-8 sequence and not all of it: some bytes after
\* it make it one character
IsIncompleteSequence(p) ==
    /\ Len(p) \in 1 .. 3
    /\ \E tail \in Strings(ContinuationSamples, 4 - Len(p)) :
            /\ Utf8Unit(p \o tail, 1).kind = "char"
            /\ Utf8Unit(p \o tail, 1).len = Len(p \o tail)

\* C37: after every encode call the carry-over of the encoder is empty or
\* the first 1 to 3 bytes of one UTF-8 sequence: it holds no whole character
\* and no byte that from_utf8 reports as invalid.
C37_CarryOverIsIncompleteSequence ==
    e_pending # <<>>
        => /\ IsIncompleteSequence(e_pending)
           /\ ValidEnd(e_pending, 1) = 1
           /\ Utf8Unit(e_pending, 1).kind = "incomplete"

\* C37 witness: an encode call under a legacy encoding questioned an invalid
\* byte and left the first two bytes of a three-byte character held.
C37_Witness ==
    /\ e_calls > 0
    /\ e_encoding \in LegacyEncodings
    /\ QUESTION_MARK \in Bytes(e_ret)
    /\ Len(e_pending) = 2
    /\ e_pending = Suffix(e_data, Len(e_data) - 2)

\* C38: from_u8 gives back the encoding whose discriminant it is given
\* (0 Utf8, 1 Gbk, 2 Gb18030, 3 Big5, 4 ShiftJis, 5 EucKr) and Utf8 for every
\* other u8, so the byte in the registry always reads back as the encoding
\* last recorded, Utf8 when none was, although the discriminants of EucKr
\* and ShiftJis are not their places in DEFAULT_ORDER.
C38_FromU8InvertsDiscriminants ==
    /\ from_u8(LAST_SELECTED_ENCODING) \in PaneEncoding
    /\ from_u8(LAST_SELECTED_ENCODING)
            = (IF r_recorded = <<>> THEN "Utf8"
               ELSE r_recorded[Len(r_recorded)])
    /\ r_recorded = <<>>
        => /\ \A e \in PaneEncoding : from_u8(as_u8(e)) = e
           /\ \A val \in (0 .. 255) \ {as_u8(e) : e \in PaneEncoding} :
                    from_u8(val) = "Utf8"
           /\ <<from_u8(0), from_u8(1), from_u8(2), from_u8(3), from_u8(4),
                from_u8(5)>>
                = <<"Utf8", "Gbk", "Gb18030", "Big5", "ShiftJis", "EucKr">>

\* C38 witness: EucKr, fifth in DEFAULT_ORDER, was recorded last; the
\* registry holds 5 and reads back as EucKr.
C38_Witness ==
    /\ r_recorded # <<>>
    /\ r_recorded[Len(r_recorded)] = "EucKr"
    /\ DEFAULT_ORDER[5] = "EucKr"
    /\ LAST_SELECTED_ENCODING = 5
    /\ from_u8(LAST_SELECTED_ENCODING) = "EucKr"

===========================================================================
